---- MODULE Spec2Model ----
(***************************************************************************)
(* Streaming client of algorithm-trading: the reconnect supervisor         *)
(* (src/src/main.rs), one session attempt (run_streaming_client,           *)
(* src/src/lib.rs) and the message dispatcher (process_streaming_message). *)
(*                                                                         *)
(* Every step of the model is the code between two await points.  The      *)
(* transport (connect, authenticate, subscribe, run), the interrupt signal *)
(* and the outcome of every sink write are the environment: their          *)
(* outcomes are inputs drawn with \E.                                      *)
(*                                                                         *)
(* The sink (OutputMode, src/src/lib.rs) is followed on its own in         *)
(* SinkSpec: the output path as a sequence of cells, the two handles a CSV *)
(* file sink opens on it, the buffers of the csv::Writer and of stdout.    *)
(* StreamSpec follows the records of one Streaming session in order, and   *)
(* JsonSpec the JSON line of one record and what the analyzer              *)
(* (src/src/analyzer.rs) reads back from it.                               *)
(* HistSpec follows the historical-data CLI (src/src/historical.rs) from   *)
(* its arguments to its paged requests.  LockSpec follows two clones of a  *)
(* File sink through the lock, the write and the return of their calls,    *)
(* and RaceSpec the select! of a Streaming session with the callback       *)
(* split into the arrival of an event, its write and its return.           *)
(***************************************************************************)
EXTENDS Integers, Sequences, FiniteSets, TLC

\* ---------------------------------------------------------------- bounds
\* largest retry ceiling (StreamingConfig.max_retries) that Init draws
MaxRetriesCeiling == 8
\* inbound events delivered to the callback in one session attempt
MaxEvents == 2
\* interrupt signals the environment raises in one process run
MaxSignals == 1
\* write calls made on one sink
MaxWrites == 3
\* length, in file cells, of the longest text handed to write / writeln
MaxLineLen == 5
\* the readings of the wall clock (Utc::now()) are 1..MaxClock
MaxClock == 2
\* length of the longest string inside a record that is serialised
MaxTextLen == 2
\* the dates given to the historical-data CLI are the days 1..MaxDay
MaxDay == 2
\* pages with a next page token that the server sends for one symbol
MaxPages == 2

\* ------------------------------------------------------- program constants
\* main.rs:65  retry_count.min(6)
BackoffCapExp == 6
\* main.rs:65  2_u64.pow(..)
BackoffBase == 2

VARIABLES
    max_retries,    \* config.max_retries (read-only after StreamingConfig::new)
    retry_count,    \* main: let mut retry_count
    pc,             \* main: "init" | "session" | "sleeping" | "exited"
    phase,          \* run_streaming_client: state of the current attempt
    backoff,        \* main: backoff_duration.as_secs() of the sleep in progress
    exit_code,      \* process exit status once pc = "exited" (-1 before)
    exit_error,     \* the error main returned, <<>> when none
    last_result,    \* what the last finished run_streaming_client returned
    attempts,       \* number of run_streaming_client invocations so far
    slept,          \* the delays slept so far, in order
    calls,          \* transport calls made by the current attempt, in order
    succeeded,      \* transport calls of the current attempt that returned Ok
    subscriptions,  \* keys of the HashMap handed to connection.subscribe
    trace,          \* the states the current attempt went through
    events,         \* events handed to the callback in the current attempt
    lastDispatch,   \* <<>> or <<the last process_streaming_message call>>
    ctrl_c,         \* the ctrl_c future of the select! is ready
    handler,        \* tokio's SIGINT handler is installed in the process
    signals,        \* interrupts raised so far
    diag,           \* what main reported for the last result: the lines on
                    \*   stderr and the retry line written to the sink
    fs,             \* the output path: [parent, exists, content]
    sink,           \* <<>> or <<the OutputMode that was constructed>>
    create_result,  \* "none" | "Ok" | "Err": what the constructor returned
    file_pos,       \* offset of the handle held by OutputMode::File.file
    csv_pos,        \* offset of the handle held by the csv::Writer
    csv_buf,        \* the csv::Writer's internal buffer
    stdout,         \* what has reached the process's standard output
    stdout_buf,     \* the buffer of std::io::Stdout
    ops,            \* the write calls made on the sink so far, in call order
    old,            \* content of the output path when the constructor ran
    log,            \* the records the current session has put into the sink
    arrivals,       \* the events the callback received, in arrival order
    json_in,        \* the StreamingData handed to a JSON-format sink
    json_line,      \* the text that write_streaming_data emitted for it
    json_out,       \* <<>> or <<the records the analyzer read back>>
    hargs,          \* historical-data: the parsed command line (Args)
    hpc,            \* historical-data main: "idle" | "start" | "validated" |
                    \*   "sink" | "fetching" | "exited"
    hexit,          \* historical-data: <<>> or <<[code, error]>> once exited
    requests,       \* the get_stock_bars calls made so far, in order
    hsym,           \* index of the symbol whose data is being fetched
    page_token,     \* fetch_historical_data: let mut page_token
    all_bars,       \* fetch_historical_data: let mut all_bars
    results,        \* what fetch_historical_data returned, one per symbol
    total_bars,     \* historical-data main: let mut total_bars
    mutex,          \* per handle of a File sink: the clone holding its Mutex
    writers,        \* per clone of the sink: where its current call stands
    inflight        \* <<>> or <<the event the callback is working on>>

processVars ==
    <<max_retries, retry_count, pc, phase, backoff, exit_code, exit_error,
      last_result, attempts, slept, calls, succeeded, subscriptions, trace,
      events, lastDispatch, ctrl_c, handler, signals, diag>>

sinkVars == <<fs, sink, create_result, file_pos, csv_pos, csv_buf, stdout,
              stdout_buf, ops, old>>

streamVars == <<log, arrivals>>

jsonVars == <<json_in, json_line, json_out>>

histVars == <<hargs, hpc, hexit, requests, hsym, page_token, all_bars, results,
              total_bars>>

concVars == <<mutex, writers, inflight>>

\* what the session-level steps leave alone
restVars == <<sinkVars, streamVars, jsonVars, histVars, concVars>>

vars == <<processVars, sinkVars, streamVars, jsonVars, histVars, concVars>>

supervisorVars == <<retry_count, pc, backoff, exit_code, exit_error, slept, diag>>
sessionVars == <<calls, succeeded, subscriptions, trace, events, lastDispatch>>

\* ------------------------------------------------------------ option type
None == <<>>
Some(x) == <<x>>

Min(a, b) == IF a <= b THEN a ELSE b

Range(q) == {q[i] : i \in 1..Len(q)}

IsPrefix(p, q) == Len(p) <= Len(q) /\ \A i \in 1..Len(p) : p[i] = q[i]

RECURSIVE Pow(_, _)
Pow(b, e) == IF e = 0 THEN 1 ELSE b * Pow(b, e - 1)

\* ------------------------------------------------------- inbound messages
\* StreamingMessage of the transport crate, as far as lib.rs reads it:
\* message_type, message, data, and (through serde) the fields that the
\* typed decoders need: a symbol and the tag-specific field group.
Tags == {"t", "q", "b", "success", "subscription", "error", "status"}
TypedTags == {"t", "q", "b"}
Symbols == {"AAPL"}
Shapes == {"t", "q", "b", "none"}
Texts == {"connected"}
RawData == {"null", "raw"}

Messages ==
    [message_type : Tags,
     symbol : {None} \cup {Some(s) : s \in Symbols},
     shape : Shapes,
     message : {None} \cup {Some(m) : m \in Texts},
     data : RawData]

\* the events the session-level specification delivers: one of each way
\* through the dispatcher (a decodable and an undecodable typed event, a
\* status event with and without its message, an event of an unknown tag)
Msg(tag, symbol, shape, message, data) ==
    [message_type |-> tag, symbol |-> symbol, shape |-> shape,
     message |-> message, data |-> data]

SessionMessages ==
    {Msg("t", Some("AAPL"), "t", None, "null"),
     Msg("q", Some("AAPL"), "none", None, "raw"),
     Msg("success", None, "none", Some("connected"), "null"),
     Msg("subscription", None, "none", None, "raw"),
     Msg("status", None, "none", None, "raw")}

DataTypes == {"Trades", "Quotes", "Bars"}

\* ------------------------------------------------------------- dispatcher
\* serde_json::to_value(message): the whole message as one JSON object
ToValue(m) ==
    [json |-> "object", T |-> m.message_type, S |-> m.symbol,
     fields |-> m.shape, msg |-> m.message, data |-> m.data]

\* serde_json::from_value::<StreamingTrade | StreamingQuote | StreamingBar>:
\* Ok(decoded) when the object carries the symbol and the field group of
\* that shape (the fields format_plain reads), Err otherwise (None here).
FromValue(shape, json) ==
    IF json.S # None /\ json.fields = shape
    THEN Some([symbol |-> json.S[1]])
    ELSE None

\* the message wrapped as the raw payload instead of as a JSON string
JsonString_AsRaw(s) == [json |-> "raw", value |-> s]

\* serde_json::Value::String(msg.clone())
JsonString(s) == [json |-> "string", value |-> s]

\* message.data.clone()
JsonRaw(d) == [json |-> "raw", value |-> d]

\* OutputMode::write_streaming_data: encodes the record, writes and flushes
\* it.  wok is the outcome of the underlying write/flush.
WriteStreamingData(data, wok) ==
    IF wok THEN [result |-> "Ok", written |-> <<data>>]
    ELSE [result |-> "Err", written |-> <<>>]

\* what a handler gives back: its Result, the records handed to
\* write_streaming_data, the records that reached the sink, the diagnostics
Outcome(result, handed, written, printed) ==
    [result |-> result, handed |-> handed, written |-> written, diag |-> printed]

\* the decode error returned with ? instead of being printed
DecodeFailed_Propagated(tag) ==
    Outcome("Err", <<>>, <<>>, <<"Failed to parse " \o tag>>)

\* the match decoded { Err(e) => eprintln!(..) } arm of the typed handlers
DecodeFailed(tag) == Outcome("Ok", <<>>, <<>>, <<"Failed to parse " \o tag>>)

\* handle_trade_message, handle_quote_message, handle_bar_message
HandleTyped(tag, m, wok) ==
    LET message_json == ToValue(m)
        decoded == FromValue(tag, message_json)
    IN  IF decoded # None
        THEN LET data == [message_type |-> tag,
                          symbol |-> Some(decoded[1].symbol),
                          data |-> message_json]
                 w == WriteStreamingData(data, wok)
             IN  Outcome(w.result, <<data>>, w.written, <<>>)
        ELSE DecodeFailed(tag)

\* a status record that carries a symbol like the typed records do
StatusRecord_WithSymbol(tag, msg) ==
    [message_type |-> tag, symbol |-> Some(msg), data |-> JsonString(msg)]

\* the record built by handle_success/subscription/error_message
StatusRecord(tag, msg) ==
    [message_type |-> tag, symbol |-> None, data |-> JsonString(msg)]

\* handle_success_message, handle_subscription_message, handle_error_message
HandleStatus(tag, m, wok) ==
    IF m.message # None
    THEN LET data == StatusRecord(tag, m.message[1])
             w == WriteStreamingData(data, wok)
         IN  Outcome(w.result, <<data>>, w.written, <<>>)
    ELSE Outcome("Ok", <<>>, <<>>, <<>>)

\* an unknown event filed under the tag "unknown" with the whole message
HandleUnknown_Retagged(m, wok) ==
    LET data == [message_type |-> "unknown", symbol |-> None,
                 data |-> ToValue(m)]
        w == WriteStreamingData(data, wok)
    IN  Outcome(w.result, <<data>>, w.written, <<>>)

\* handle_unknown_message
HandleUnknown(m, wok) ==
    LET data == [message_type |-> m.message_type, symbol |-> None,
                 data |-> JsonRaw(m.data)]
        w == WriteStreamingData(data, wok)
    IN  Outcome(w.result, <<data>>, w.written, <<>>)

\* process_streaming_message
ProcessStreamingMessage(m, wok) ==
    CASE m.message_type \in {"t", "q", "b"} -> HandleTyped(m.message_type, m, wok)
      [] m.message_type \in {"success", "subscription", "error"} ->
             HandleStatus(m.message_type, m, wok)
      [] OTHER -> HandleUnknown(m, wok)

\* ------------------------------------------------------------- supervisor
\* Result<()> of run_streaming_client, with the place that produced it
Ok(via) == [ok |-> TRUE, err |-> "", via |-> via]
Err(e, via) == [ok |-> FALSE, err |-> e, via |-> via]
NoResult == [ok |-> FALSE, err |-> "", via |-> "none"]

\* the delay without the cap: 2_u64.pow(retry_count)
Backoff_NoCap(rc) == Pow(BackoffBase, rc)

\* main.rs:65  2_u64.pow(retry_count.min(6)) seconds
Backoff(rc) == Pow(BackoffBase, Min(rc, BackoffCapExp))

\* the ceiling test one off: retry_count > config.max_retries
RetriesExhausted_OffByOne(rc, ceiling) == rc > ceiling

\* main.rs:60  retry_count >= config.max_retries
RetriesExhausted(rc, ceiling) == rc >= ceiling

\* a main that does not return: the process stays alive and does nothing
Exit_Hangs(code, error) ==
    /\ pc' = "hung"
    /\ exit_code' = code
    /\ exit_error' = error
    /\ backoff' = 0

\* main returns: Ok(()) is exit status 0, Err(e) is exit status 1
Exit(code, error) ==
    /\ pc' = "exited"
    /\ exit_code' = code
    /\ exit_error' = error
    /\ backoff' = 0

\* main.rs:58  eprintln!("Streaming error (attempt {}/{}): {}", ..)
ErrorReport(rc, ceiling, e) ==
    [line |-> "Streaming error", attempt |-> rc, of |-> ceiling, error |-> e]

\* main.rs:61  eprintln!("Max retries reached. Exiting...")
ExhaustedReport(rc, ceiling) ==
    [line |-> "Max retries reached", attempt |-> rc, of |-> ceiling, error |-> ""]

\* a report that announces twice the delay
RetryReport_Doubled(delay) ==
    [line |-> "Retrying in", seconds |-> 2 * delay]

\* main.rs:66  the line "Retrying in {} seconds..." written to the sink
RetryReport(delay) ==
    [line |-> "Retrying in", seconds |-> delay]

\* a match that takes a timeout for a clean end of the session
CountsAsFailure_NotTimeouts(res) == ~res.ok /\ res.err # "timeout"

\* main.rs:56  the arm Err(e) of the match: every error, whatever its cause
CountsAsFailure(res) == ~res.ok

\* a counter that goes up by two
Increment_ByTwo(rc) == rc + 2

\* main.rs:57  retry_count += 1
Increment(rc) == rc + 1

\* main.rs:51-69  the match on the result of run_streaming_client; mwok is
\* the outcome of the one writeln the taken arm makes (line 53 or line 66)
Supervise(res, mwok) ==
    /\ slept' = slept
    /\ IF ~CountsAsFailure(res)
       THEN /\ retry_count' = retry_count
            /\ diag' = <<>>
            /\ IF mwok THEN Exit(0, None) ELSE Exit(1, Some("sink(main)"))
       ELSE LET rc == Increment(retry_count)
                backoff_duration == Backoff(rc)
            IN
            /\ retry_count' = rc
            /\ IF RetriesExhausted(rc, max_retries)
               THEN /\ diag' = <<ErrorReport(rc, max_retries, res.err),
                                 ExhaustedReport(rc, max_retries)>>
                    /\ Exit(1, Some(res.err))
               ELSE IF ~mwok
               THEN /\ diag' = <<ErrorReport(rc, max_retries, res.err)>>
                    /\ Exit(1, Some("sink(main)"))
               ELSE /\ diag' = <<ErrorReport(rc, max_retries, res.err),
                                 RetryReport(backoff_duration)>>
                    /\ pc' = "sleeping"
                    /\ backoff' = backoff_duration
                    /\ UNCHANGED <<exit_code, exit_error>>

\* run_streaming_client returns res to the match in main
EndSession(res, mwok) ==
    /\ phase' = "Terminated"
    /\ trace' = Append(trace, "Terminated")
    /\ last_result' = res
    /\ ctrl_c' = FALSE
    /\ Supervise(res, mwok)

\* an attempt that goes on with the connection and the calls of the last one
BeginAttempt_Reuse ==
    /\ pc' = "session"
    /\ phase' = "Connecting"
    /\ attempts' = attempts + 1
    /\ calls' = calls
    /\ succeeded' = succeeded
    /\ subscriptions' = subscriptions
    /\ trace' = <<"Connecting">>
    /\ events' = 0
    /\ lastDispatch' = None
    /\ ctrl_c' = FALSE

\* main.rs:51  run_streaming_client(&config) is invoked
BeginAttempt ==
    /\ pc' = "session"
    /\ phase' = "Connecting"
    /\ attempts' = attempts + 1
    /\ calls' = <<>>
    /\ succeeded' = {}
    /\ subscriptions' = {}
    /\ trace' = <<"Connecting">>
    /\ events' = 0
    /\ lastDispatch' = None
    /\ ctrl_c' = FALSE

\* no OutputMode has been constructed, nothing has been written
Unopened ==
    /\ sink = <<>>
    /\ create_result = "none"
    /\ file_pos = 0
    /\ csv_pos = 0
    /\ csv_buf = <<>>
    /\ stdout = <<>>
    /\ stdout_buf = <<>>
    /\ ops = <<>>
    /\ old = <<>>

\* the output path is absent and no sink is followed
NoSink ==
    /\ fs = [parent |-> TRUE, exists |-> FALSE, content |-> <<>>]
    /\ Unopened

\* no event has been received, no record written
NoStream == log = <<>> /\ arrivals = <<>>

\* no record is being serialised
NoJson == json_in = <<>> /\ json_line = <<>> /\ json_out = <<>>

\* the historical-data binary is not running
NoHist ==
    /\ hargs = <<>>
    /\ hpc = "idle"
    /\ hexit = <<>>
    /\ requests = <<>>
    /\ hsym = 0
    /\ page_token = <<>>
    /\ all_bars = <<>>
    /\ results = <<>>
    /\ total_bars = 0

\* the clones of one OutputMode::File value, one per concurrent caller, and
\* the two handles of a File sink, each behind its own Arc<Mutex<..>>
Clones == {"main", "callback"}
Handles == {"file", "csv_writer"}

\* a clone that is not inside a call of the sink
IdleWriter == [pc |-> "idle", kind |-> "", handle |-> ""]

\* nobody is using the sink and the callback is not running
NoConc ==
    /\ mutex = [h \in Handles |-> ""]
    /\ writers = [c \in Clones |-> IdleWriter]
    /\ inflight = <<>>

\* main has not started
ProcessStart ==
    /\ retry_count = 0
    /\ pc = "init"
    /\ phase = "None"
    /\ backoff = 0
    /\ exit_code = -1
    /\ exit_error = None
    /\ last_result = NoResult
    /\ attempts = 0
    /\ slept = <<>>
    /\ calls = <<>>
    /\ succeeded = {}
    /\ subscriptions = {}
    /\ trace = <<>>
    /\ events = 0
    /\ lastDispatch = None
    /\ ctrl_c = FALSE
    /\ handler = FALSE
    /\ signals = 0
    /\ diag = <<>>

Init ==
    /\ max_retries \in 0..MaxRetriesCeiling
    /\ ProcessStart
    /\ NoSink
    /\ NoStream
    /\ NoConc
    /\ NoJson
    /\ NoHist

\* a supervisor that tests the ceiling before it makes an attempt
MainStart_CeilingFirst(created, wok) ==
    /\ pc = "init"
    /\ IF ~created
       THEN /\ Exit(1, Some("create_file_mode"))
            /\ UNCHANGED <<phase, attempts, sessionVars, ctrl_c>>
       ELSE IF ~wok
            THEN /\ Exit(1, Some("sink(main)"))
                 /\ UNCHANGED <<phase, attempts, sessionVars, ctrl_c>>
            ELSE IF RetriesExhausted(retry_count, max_retries)
            THEN /\ Exit(1, None)
                 /\ UNCHANGED <<phase, attempts, sessionVars, ctrl_c>>
            ELSE /\ BeginAttempt
                 /\ UNCHANGED <<backoff, exit_code, exit_error>>
    /\ UNCHANGED <<max_retries, retry_count, last_result, slept, handler, signals,
                   diag>>

\* main.rs:38-51  create the output mode, write the banner, enter the loop
MainStart(created, wok) ==
    /\ pc = "init"
    /\ IF ~created
       THEN /\ Exit(1, Some("create_file_mode"))
            /\ UNCHANGED <<phase, attempts, sessionVars, ctrl_c>>
       ELSE IF ~wok
            THEN /\ Exit(1, Some("sink(main)"))
                 /\ UNCHANGED <<phase, attempts, sessionVars, ctrl_c>>
            ELSE /\ BeginAttempt
                 /\ UNCHANGED <<backoff, exit_code, exit_error>>
    /\ UNCHANGED <<max_retries, retry_count, last_result, slept, handler, signals,
                   diag>>

\* a supervisor that sleeps the delay a second time before the next attempt
WakeUp_SleepsTwice ==
    /\ pc = "sleeping"
    /\ slept' = slept \o <<backoff, backoff>>
    /\ backoff' = 0
    /\ BeginAttempt
    /\ UNCHANGED <<max_retries, retry_count, exit_code, exit_error, last_result,
                   handler, signals, diag>>

\* main.rs:67-51  the sleep ends and the loop invokes the next attempt
WakeUp ==
    /\ pc = "sleeping"
    /\ slept' = Append(slept, backoff)
    /\ backoff' = 0
    /\ BeginAttempt
    /\ UNCHANGED <<max_retries, retry_count, exit_code, exit_error, last_result,
                   handler, signals, diag>>

\* ---------------------------------------------------------------- session
\* what can happen between the invocation and the authenticate call
\* (lib.rs:253-259): the first step that fails, or "ok"
ConnectOutcomes == {"write_feed", "new", "connect", "write_auth", "ok"}

\* what can happen to a call wrapped in timeout(..) and to the writelns
\* that follow it: the deadline passes, the call returns Err, a writeln
\* fails, or everything succeeds
TimedOutcomes == {"timeout", "rejected", "write", "ok"}

\* the transport call itself returned Ok before the deadline
CallReturnedOk(o) == o \in {"write", "ok"}

\* only the deadline is checked (timeout(d, call).await? with one ?)
TimedCallOk_IgnoreRejection(o) == o # "timeout"

\* timeout(d, call).await??  lets the attempt go on only when the call
\* completed in time (outer ?) and returned Ok (inner ?)
TimedCallOk(o) == o \notin {"timeout", "rejected"}

\* the error that timeout(d, call).await?? returns
TimedCallErr(o) == IF o = "timeout" THEN "timeout" ELSE "rejected"

\* lib.rs:253-259  status line, StreamingClient::new, connect, status line,
\* authenticate is called
Connect(o, mwok) ==
    /\ pc = "session" /\ phase = "Connecting"
    /\ calls' = IF o \in {"write_feed", "new"} THEN calls
                ELSE IF o = "ok" THEN <<"connect", "authenticate">>
                ELSE <<"connect">>
    /\ succeeded' = IF o \in {"write_auth", "ok"} THEN {"connect"} ELSE succeeded
    /\ IF o = "ok"
       THEN /\ phase' = "Authenticating"
            /\ trace' = Append(trace, "Authenticating")
            /\ UNCHANGED <<supervisorVars, last_result, ctrl_c>>
       ELSE EndSession(
                CASE o = "write_feed" -> Err("sink", "write")
                  [] o = "new" -> Err("client", "new")
                  [] o = "connect" -> Err("connect", "connect")
                  [] OTHER -> Err("sink", "write"),
                mwok)
    /\ UNCHANGED <<max_retries, attempts, subscriptions, events, lastDispatch,
                   handler, signals>>

\* lib.rs:259-268  authenticate resolves or times out, two status lines,
\* the subscription map is built and subscribe is called
Authenticate(o, mwok) ==
    /\ pc = "session" /\ phase = "Authenticating"
    /\ succeeded' = IF CallReturnedOk(o) THEN succeeded \cup {"authenticate"}
                    ELSE succeeded
    /\ IF TimedCallOk(o) /\ o # "write"
       THEN /\ subscriptions' = DataTypes
            /\ calls' = Append(calls, "subscribe")
            /\ phase' = "Subscribing"
            /\ trace' = Append(trace, "Subscribing")
            /\ UNCHANGED <<supervisorVars, last_result, ctrl_c>>
       ELSE /\ EndSession(
                   IF TimedCallOk(o) THEN Err("sink", "write")
                   ELSE Err(TimedCallErr(o), "auth_" \o o),
                   mwok)
            /\ UNCHANGED <<subscriptions, calls>>
    /\ UNCHANGED <<max_retries, attempts, events, lastDispatch, handler, signals>>

\* lib.rs:268-284  subscribe resolves or times out, five status lines, the
\* select! polls connection.run and the ctrl_c future for the first time
Subscribe(o, mwok) ==
    /\ pc = "session" /\ phase = "Subscribing"
    /\ succeeded' = IF CallReturnedOk(o) THEN succeeded \cup {"subscribe"}
                    ELSE succeeded
    /\ IF TimedCallOk(o) /\ o # "write"
       THEN /\ calls' = Append(calls, "run")
            /\ phase' = "Streaming"
            /\ trace' = Append(trace, "Streaming")
            /\ handler' = TRUE
            /\ UNCHANGED <<supervisorVars, last_result, ctrl_c>>
       ELSE /\ EndSession(
                   IF TimedCallOk(o) THEN Err("sink", "write")
                   ELSE Err(TimedCallErr(o), "subscribe_" \o o),
                   mwok)
            /\ UNCHANGED <<calls, handler>>
    /\ UNCHANGED <<max_retries, attempts, subscriptions, events, lastDispatch,
                   signals>>

\* lib.rs:282-284  connection.run hands one inbound event to the callback.
\* What run does with an Err from the callback is the transport crate's
\* business: it goes on (cont) or it returns that error.
Dispatch(m, wok, cont, mwok) ==
    /\ pc = "session" /\ phase = "Streaming"
    /\ events < MaxEvents
    /\ events' = events + 1
    /\ LET out == ProcessStreamingMessage(m, wok)
           aborted == out.result = "Err" /\ ~cont
       IN  /\ lastDispatch' = Some([msg |-> m, out |-> out, aborted |-> aborted])
           /\ IF aborted
              THEN EndSession(Err("callback", "run_err"), mwok)
              ELSE UNCHANGED <<supervisorVars, last_result, ctrl_c, phase, trace>>
    /\ UNCHANGED <<max_retries, attempts, calls, succeeded, subscriptions,
                   handler, signals>>

\* lib.rs:285-288  the arm of the select! for the result of connection.run:
\* an Err is returned, anything else falls through to line 294
RunArmReturnsErr(r) == r = "err"

\* lib.rs:284-295  connection.run finishes by itself: with an error (r =
\* "err") or because the connection ended (r = "ok"); wok is the outcome of
\* the writeln of line 294
RunEnds(r, wok, mwok) ==
    /\ pc = "session" /\ phase = "Streaming"
    /\ EndSession(
           IF RunArmReturnsErr(r) THEN Err("stream", "run_err")
           ELSE IF wok THEN Ok("run_" \o r) ELSE Err("sink", "run_" \o r),
           mwok)
    /\ UNCHANGED <<max_retries, attempts, calls, succeeded, subscriptions,
                   events, lastDispatch, handler, signals>>

\* a ctrl_c arm that writes its lines and lets the session go on
Cancelled_KeepsStreaming(wok, mwok) ==
    /\ pc = "session" /\ phase = "Streaming"
    /\ ctrl_c
    /\ ctrl_c' = FALSE
    /\ UNCHANGED <<supervisorVars, last_result, phase, trace>>
    /\ UNCHANGED <<max_retries, attempts, calls, succeeded, subscriptions,
                   events, lastDispatch, handler, signals>>

\* lib.rs:290-295  the ctrl_c arm of the select! is taken; wok is the
\* outcome of the writelns of lines 291 and 294
Cancelled(wok, mwok) ==
    /\ pc = "session" /\ phase = "Streaming"
    /\ ctrl_c
    /\ EndSession(IF wok THEN Ok("cancel") ELSE Err("sink", "cancel"), mwok)
    /\ UNCHANGED <<max_retries, attempts, calls, succeeded, subscriptions,
                   events, lastDispatch, handler, signals>>

\* the operating system delivers SIGINT.  Before tokio::signal::ctrl_c was
\* first polled (lib.rs:277-290) the default disposition ends the process;
\* afterwards the signal wakes the ctrl_c future of a running select! and
\* is lost when no such future exists.
Interrupt ==
    /\ pc \in {"init", "session", "sleeping"}
    /\ signals < MaxSignals
    /\ signals' = signals + 1
    /\ IF ~handler
       THEN /\ pc' = "exited"
            /\ exit_code' = 130
            /\ backoff' = 0
            /\ UNCHANGED <<ctrl_c, exit_error>>
       ELSE /\ ctrl_c' = (ctrl_c \/ phase = "Streaming")
            /\ UNCHANGED <<pc, exit_code, backoff, exit_error>>
    /\ UNCHANGED <<max_retries, retry_count, phase, last_result, attempts, slept,
                   sessionVars, handler, diag>>

Next ==
    \/ \E created, wok \in BOOLEAN :
           MainStart(created, wok) /\ UNCHANGED restVars
    \/ WakeUp /\ UNCHANGED restVars
    \/ \E o \in ConnectOutcomes, mwok \in BOOLEAN :
           Connect(o, mwok) /\ UNCHANGED restVars
    \/ \E o \in TimedOutcomes, mwok \in BOOLEAN :
           Authenticate(o, mwok) /\ UNCHANGED restVars
    \/ \E o \in TimedOutcomes, mwok \in BOOLEAN :
           Subscribe(o, mwok) /\ UNCHANGED restVars
    \/ \E m \in SessionMessages, wok, cont, mwok \in BOOLEAN :
           Dispatch(m, wok, cont, mwok) /\ UNCHANGED restVars
    \/ \E r \in {"ok", "err"}, wok, mwok \in BOOLEAN :
           RunEnds(r, wok, mwok) /\ UNCHANGED restVars
    \/ \E wok, mwok \in BOOLEAN : Cancelled(wok, mwok) /\ UNCHANGED restVars
    \/ Interrupt /\ UNCHANGED restVars

Spec == Init /\ [][Next]_vars

\* the same process when every awaited call returns and the sleep ends: the
\* tokio runtime resumes main whenever the future it waits for is ready
LiveSpec == Spec /\ WF_vars(Next)

\* --------------------------------------------- the dispatcher on its own
\* StreamingConfig::new: max_retries: 5  (lib.rs:244)
DefaultMaxRetries == 5

\* the first attempt of a run with the default configuration has reached
\* the select! (MainStart, Connect, Authenticate and Subscribe succeeded)
DispatchInit ==
    /\ max_retries = DefaultMaxRetries
    /\ NoSink
    /\ NoStream
    /\ NoConc
    /\ NoJson
    /\ NoHist
    /\ retry_count = 0
    /\ pc = "session"
    /\ phase = "Streaming"
    /\ backoff = 0
    /\ exit_code = -1
    /\ exit_error = None
    /\ last_result = NoResult
    /\ attempts = 1
    /\ slept = <<>>
    /\ calls = <<"connect", "authenticate", "subscribe", "run">>
    /\ succeeded = {"connect", "authenticate", "subscribe"}
    /\ subscriptions = DataTypes
    /\ trace = <<"Connecting", "Authenticating", "Subscribing", "Streaming">>
    /\ events = 0
    /\ lastDispatch = None
    /\ ctrl_c = FALSE
    /\ handler = TRUE
    /\ signals = 0
    /\ diag = <<>>

\* every inbound message, every outcome of the sink write and of the
\* transport's handling of a callback error
DispatchNext ==
    \E m \in Messages, wok, cont, mwok \in BOOLEAN :
        Dispatch(m, wok, cont, mwok) /\ UNCHANGED restVars

DispatchSpec == DispatchInit /\ [][DispatchNext]_vars

\* ------------------------------------------------------------------ sink
\* DataFormat
Formats == {"Plain", "Json", "Csv"}

\* A file (and stdout) is a sequence of cells, equal-sized blocks of text.
\* A cell holds its text, what ends it ("," after a csv field, "\n" at the
\* end of a line, "" otherwise) and the write it came from: -1 content that
\* was there before the sink, 0 the constructor, k the k-th write call.
Cell(ch, end, w) == [ch |-> ch, end |-> end, w |-> w]

\* the bytes a write beyond the end of file leaves in the gap
Pad(n) == [i \in 1..n |-> Cell("", "", -2)]

\* a caller's text of n cells
Text(n, w) == [i \in 1..n |-> Cell("x", "", w)]

\* format!("{}\n", message)
WithNewline(cells) ==
    [i \in 1..Len(cells) |->
        IF i = Len(cells) THEN Cell(cells[i].ch, "\n", cells[i].w) ELSE cells[i]]

\* csv::Writer::write_record: the fields separated by "," and ended by "\n"
CsvRecord(fields, w) ==
    [i \in 1..Len(fields) |->
        Cell(fields[i], IF i = Len(fields) THEN "\n" ELSE ",", w)]

\* lib.rs:200  the header record of a CSV file sink
HeaderFields == <<"timestamp", "message_type", "symbol", "data">>

\* lib.rs:157-161  the four fields of a data record
RecordFields == <<"<timestamp>", "<message_type>", "<symbol>", "<data>">>

\* content that the output path holds before the sink is constructed
OldContent == <<Cell("old", "\n", -1)>>

\* the lengths of text the callers hand over: shorter and longer than the
\* header record
LineLens == {1, MaxLineLen}

\* OpenOptions::new().create(true).append(true).open(path) when append,
\* ...create(true).write(true).truncate(true).open(path) otherwise.
\* ok: the environment lets the open succeed; it cannot when the parent
\* directory does not exist.
OpenFile_NoParentNeeded(f, append, ok) ==
    IF ~ok THEN [ok |-> FALSE, fs |-> f]
    ELSE [ok |-> TRUE,
          fs |-> [f EXCEPT !.exists = TRUE,
                           !.content = IF append THEN @ ELSE <<>>]]

OpenFile(f, append, ok) ==
    IF ~f.parent \/ ~ok THEN [ok |-> FALSE, fs |-> f]
    ELSE [ok |-> TRUE,
          fs |-> [f EXCEPT !.exists = TRUE,
                           !.content = IF append THEN @ ELSE <<>>]]

\* a write that goes to the handle's offset even in append mode
WriteAt_IgnoreAppend(content, pos, cells, append) ==
    LET base == IF pos > Len(content)
                THEN content \o Pad(pos - Len(content)) ELSE content
    IN  SubSeq(base, 1, pos) \o cells
            \o SubSeq(base, pos + Len(cells) + 1, Len(base))

\* write(2) through one handle: at the end of the file when the handle was
\* opened with append, at the handle's own offset otherwise (what lies
\* beyond the written cells stays, a gap is filled)
WriteAt(content, pos, cells, append) ==
    IF append THEN content \o cells
    ELSE LET base == IF pos > Len(content)
                     THEN content \o Pad(pos - Len(content)) ELSE content
         IN  SubSeq(base, 1, pos) \o cells
                 \o SubSeq(base, pos + Len(cells) + 1, Len(base))

\* a flush that returns Ok and leaves the buffer as it is
Flush_Skipped(buf, ok) == [ok |-> TRUE, out |-> <<>>, buf |-> buf]

\* flush() of a buffered writer (csv::Writer, Stdout): the buffer goes to
\* the underlying writer and is cleared; when that write fails the buffer
\* is kept and the error returned
Flush(buf, ok) ==
    IF ok THEN [ok |-> TRUE, out |-> buf, buf |-> <<>>]
    ELSE [ok |-> FALSE, out |-> <<>>, buf |-> buf]

\* print!: Stdout is line buffered.  Text that ends a line is pushed
\* through together with what was buffered (print! panics when that
\* fails); other text stays in the buffer.
StdoutWrite(buf, cells, ok) ==
    IF cells[Len(cells)].end = "\n"
    THEN IF ok THEN [ok |-> TRUE, out |-> buf \o cells, buf |-> <<>>]
         ELSE [ok |-> FALSE, out |-> <<>>, buf |-> buf \o cells]
    ELSE [ok |-> TRUE, out |-> <<>>, buf |-> buf \o cells]

\* the destinations as one value
Dest ==
    [content |-> fs.content, file_pos |-> file_pos, csv_pos |-> csv_pos,
     csv_buf |-> csv_buf, stdout |-> stdout, stdout_buf |-> stdout_buf]

\* OutputMode::write
SinkWrite(s, d, cells, wok) ==
    IF s.kind = "Console"
    THEN LET p == StdoutWrite(d.stdout_buf, cells, wok)
             f == Flush(p.buf, wok)
         IN  IF ~p.ok
             THEN [d EXCEPT !.stdout_buf = p.buf] @@ [result |-> "Panic"]
             ELSE [d EXCEPT !.stdout = @ \o p.out \o f.out,
                            !.stdout_buf = f.buf]
                  @@ [result |-> IF f.ok THEN "Ok" ELSE "Err"]
    ELSE IF wok
         THEN [d EXCEPT !.content = WriteAt(@, d.file_pos, cells, s.append),
                        !.file_pos = @ + Len(cells)]
              @@ [result |-> "Ok"]
         ELSE d @@ [result |-> "Err"]

\* OutputMode::writeln
SinkWriteln(s, d, cells, wok) == SinkWrite(s, d, WithNewline(cells), wok)

\* format_plain, serde_json::to_string, format_csv_line: one piece of text
Formatted(format, w) ==
    <<Cell(CASE format = "Plain" -> "<plain>"
             [] format = "Json" -> "<json>"
             [] OTHER -> "<csv_line>", "", w)>>

\* the cells one write_streaming_data call has to put into the destination
RecordCells(s, w) ==
    IF s.kind = "File" /\ s.format = "Csv"
    THEN IF s.csv_writer THEN CsvRecord(RecordFields, w) ELSE <<>>
    ELSE WithNewline(Formatted(s.format, w))

\* OutputMode::write_streaming_data
SinkWriteStreamingData(s, d, w, wok) ==
    IF s.kind = "Console"
    THEN SinkWriteln(s, d, Formatted(s.format, w), wok)
    ELSE IF s.format # "Csv"
    THEN SinkWrite(s, d, WithNewline(Formatted(s.format, w)), wok)
    ELSE IF s.csv_writer
    THEN LET f == Flush(d.csv_buf \o CsvRecord(RecordFields, w), wok)
         IN  [d EXCEPT !.content = WriteAt(@, d.csv_pos, f.out, s.append),
                        !.csv_pos = @ + Len(f.out),
                        !.csv_buf = f.buf]
             @@ [result |-> IF f.ok THEN "Ok" ELSE "Err"]
    ELSE d @@ [result |-> "Ok"]

\* a File value that never carries a CSV writer
FileMode_NoWriter(format, append, csv_writer) ==
    [kind |-> "File", format |-> format, append |-> append,
     csv_writer |-> FALSE]

\* the value of OutputMode::File { file, format, csv_writer } and of
\* OutputMode::Console { format }
FileMode(format, append, csv_writer) ==
    [kind |-> "File", format |-> format, append |-> append,
     csv_writer |-> csv_writer]
ConsoleMode(format) ==
    [kind |-> "Console", format |-> format, append |-> FALSE,
     csv_writer |-> FALSE]

\* OutputMode::create_file_mode.  ok1, ok2: the two opens; hok: the write
\* of the header record (and of the flush the dropped writer tries when the
\* constructor returns early).
CreateFileMode(format, append, ok1, ok2, hok) ==
    /\ create_result = "none"
    /\ old' = fs.content
    /\ LET o1 == OpenFile(fs, append, ok1)
           o2 == OpenFile(o1.fs, append, ok2)
           h  == Flush(CsvRecord(HeaderFields, 0), hok)
       IN  IF ~o1.ok
           THEN /\ create_result' = "Err" /\ sink' = None /\ fs' = o1.fs
                /\ UNCHANGED csv_pos
           ELSE IF format # "Csv"
           THEN /\ create_result' = "Ok"
                /\ sink' = Some(FileMode(format, append, FALSE))
                /\ fs' = o1.fs
                /\ UNCHANGED csv_pos
           ELSE IF ~o2.ok
           THEN /\ create_result' = "Err" /\ sink' = None /\ fs' = o2.fs
                /\ UNCHANGED csv_pos
           ELSE IF append
           THEN /\ create_result' = "Ok"
                /\ sink' = Some(FileMode(format, append, TRUE))
                /\ fs' = o2.fs
                /\ UNCHANGED csv_pos
           ELSE IF ~h.ok
           THEN /\ create_result' = "Err" /\ sink' = None /\ fs' = o2.fs
                /\ UNCHANGED csv_pos
           ELSE /\ create_result' = "Ok"
                /\ sink' = Some(FileMode(format, append, TRUE))
                /\ fs' = [o2.fs EXCEPT !.content = WriteAt(@, 0, h.out, FALSE)]
                /\ csv_pos' = Len(h.out)
    /\ UNCHANGED <<file_pos, csv_buf, stdout, stdout_buf, ops, processVars,
                   streamVars, jsonVars>>

\* OutputMode::create_console_mode
CreateConsoleMode(format) ==
    /\ create_result = "none"
    /\ create_result' = "Ok"
    /\ sink' = Some(ConsoleMode(format))
    /\ UNCHANGED <<fs, file_pos, csv_pos, csv_buf, stdout, stdout_buf, ops, old,
                   processVars, streamVars, jsonVars>>

\* a write call can be made: there is a sink and the process is alive
CanWrite ==
    /\ sink # None
    /\ Len(ops) < MaxWrites
    /\ \A i \in 1..Len(ops) : ops[i].result # "Panic"

\* the call's effect on the destinations and its entry in the call history
Called(kind, cells, wok, r) ==
    /\ fs' = [fs EXCEPT !.content = r.content]
    /\ file_pos' = r.file_pos
    /\ csv_pos' = r.csv_pos
    /\ csv_buf' = r.csv_buf
    /\ stdout' = r.stdout
    /\ stdout_buf' = r.stdout_buf
    /\ ops' = Append(ops, [kind |-> kind, cells |-> cells, io |-> wok,
                           result |-> r.result])
    /\ UNCHANGED <<sink, create_result, old, processVars, streamVars, jsonVars>>

\* a caller invokes write(message)
Write(n, wok) ==
    /\ CanWrite
    /\ LET cells == Text(n, Len(ops) + 1)
       IN  Called("write", cells, wok, SinkWrite(sink[1], Dest, cells, wok))

\* a caller invokes writeln(message)
Writeln(n, wok) ==
    /\ CanWrite
    /\ LET cells == Text(n, Len(ops) + 1)
       IN  Called("writeln", WithNewline(cells), wok,
                  SinkWriteln(sink[1], Dest, cells, wok))

\* a caller invokes write_streaming_data(data)
WriteRecord(wok) ==
    /\ CanWrite
    /\ LET w == Len(ops) + 1
       IN  Called("record", RecordCells(sink[1], w), wok,
                  SinkWriteStreamingData(sink[1], Dest, w, wok))

\* the output path before the program runs: its directory is missing, or
\* the file is absent, or the file holds earlier content
SinkInit ==
    /\ max_retries = DefaultMaxRetries
    /\ ProcessStart
    /\ NoStream
    /\ NoConc
    /\ NoJson
    /\ NoHist
    /\ Unopened
    /\ fs \in {[parent |-> FALSE, exists |-> FALSE, content |-> <<>>],
               [parent |-> TRUE, exists |-> FALSE, content |-> <<>>],
               [parent |-> TRUE, exists |-> TRUE, content |-> OldContent]}

SinkNext ==
    \/ \E format \in Formats, append, ok1, ok2, hok \in BOOLEAN :
           CreateFileMode(format, append, ok1, ok2, hok) /\ UNCHANGED <<histVars, concVars>>
    \/ \E format \in Formats : CreateConsoleMode(format) /\ UNCHANGED <<histVars, concVars>>
    \/ \E n \in LineLens, wok \in BOOLEAN : Write(n, wok) /\ UNCHANGED <<histVars, concVars>>
    \/ \E n \in LineLens, wok \in BOOLEAN :
           Writeln(n, wok) /\ UNCHANGED <<histVars, concVars>>
    \/ \E wok \in BOOLEAN : WriteRecord(wok) /\ UNCHANGED <<histVars, concVars>>

SinkSpec == SinkInit /\ [][SinkNext]_vars

\* ------------------------------------------------- the streaming session
\* the values Utc::now() returns
Clock == 1..MaxClock

\* the event time that the exchange put into the payload (trade.timestamp,
\* quote.timestamp, bar.timestamp); it is no reading of the local clock
PayloadTimestamp == 0

\* a record stamped with the event time of its payload
Stamp_FromPayload(data, now) == [timestamp |-> PayloadTimestamp] @@ data

\* timestamp: Utc::now() in the StreamingData the handlers build
Stamp(data, now) == [timestamp |-> now] @@ data

\* lib.rs:280-283  the callback of connection.run receives one event: it
\* runs process_streaming_message to its end; now is the clock reading the
\* handler takes
Receive(m, now, wok, cont, mwok) ==
    /\ Dispatch(m, wok, cont, mwok)
    /\ LET out == ProcessStreamingMessage(m, wok)
       IN  /\ log' = log \o [i \in 1..Len(out.written) |->
                                Stamp(out.written[i], now)]
           /\ arrivals' = Append(arrivals, [msg |-> m, at |-> now, io |-> wok])
    /\ UNCHANGED <<sinkVars, jsonVars, histVars>>

StreamInit == DispatchInit

StreamNext ==
    \E m \in SessionMessages, now \in Clock, wok, cont, mwok \in BOOLEAN :
        Receive(m, now, wok, cont, mwok) /\ UNCHANGED concVars

StreamSpec == StreamInit /\ [][StreamNext]_vars

\* ------------------------------------------------- JSON lines and back
\* the characters of the strings inside a record: a letter, the quote, the
\* backslash, the line feed and a brace
Chars == {"a", "\"", "\\", "\n", "}"}

RECURSIVE TextsOfLen(_)
TextsOfLen(n) ==
    IF n = 0 THEN {<<>>}
    ELSE {Append(t, c) : t \in TextsOfLen(n - 1), c \in Chars}

JsonTexts == UNION {TextsOfLen(n) : n \in 0..MaxTextLen}

\* serde_json::Value: null, a string, a number, an object of scalars
JNull == [json |-> "null", value |-> <<>>]
JNumber(tok) == [json |-> "number", value |-> <<tok>>]
JObject(members) == [json |-> "object", value |-> members]
NumberTokens == {"7"}

JsonValues ==
    {JNull, JNumber("7")}
        \cup {JsonString(t) : t \in JsonTexts}
        \cup {JObject(<<[k |-> <<"S">>, v |-> JsonString(t)],
                        [k |-> <<"p">>, v |-> JNumber("7")]>>) : t \in JsonTexts}

\* StreamingData (lib.rs:40-46)
JsonRecords ==
    [timestamp : Clock,
     message_type : {<<"t">>, <<"a", "\"">>},
     symbol : {None, Some(<<"AAPL">>)},
     data : JsonValues]

\* chrono's serde format of a DateTime<Utc> and its parser
Rfc3339(ts) == "T" \o ToString(ts)
ParseRfc3339(tok) ==
    IF \E ts \in Clock : Rfc3339(ts) = tok
    THEN Some(CHOOSE ts \in Clock : Rfc3339(ts) = tok)
    ELSE None

\* a character copied into the JSON text as it is
EscapeChar_Verbatim(c) == <<c>>

\* serde_json's string escaping
EscapeChar(c) ==
    CASE c = "\"" -> <<"\\", "\"">>
      [] c = "\\" -> <<"\\", "\\">>
      [] c = "\n" -> <<"\\", "n">>
      [] OTHER -> <<c>>

RECURSIVE Escape(_)
Escape(t) == IF t = <<>> THEN <<>> ELSE EscapeChar(Head(t)) \o Escape(Tail(t))

SerString(t) == <<"\"">> \o Escape(t) \o <<"\"">>

SerScalar(v) ==
    CASE v.json = "null" -> <<"null">>
      [] v.json = "number" -> v.value
      [] OTHER -> SerString(v.value)

RECURSIVE SerMembers(_, _)
SerMembers(ms, i) ==
    IF i > Len(ms) THEN <<>>
    ELSE (IF i > 1 THEN <<",">> ELSE <<>>)
            \o SerString(ms[i].k) \o <<":">> \o SerScalar(ms[i].v)
            \o SerMembers(ms, i + 1)

SerValue(v) ==
    IF v.json = "object" THEN <<"{">> \o SerMembers(v.value, 1) \o <<"}">>
    ELSE SerScalar(v)

\* serde_json::to_string(data) for the derived Serialize of StreamingData
ToJsonString(data) ==
    <<"{">> \o SerString(<<"timestamp">>) \o <<":">>
            \o SerString(<<Rfc3339(data.timestamp)>>)
        \o <<",">> \o SerString(<<"message_type">>) \o <<":">>
            \o SerString(data.message_type)
        \o <<",">> \o SerString(<<"symbol">>) \o <<":">>
            \o (IF data.symbol = None THEN <<"null">>
                ELSE SerString(data.symbol[1]))
        \o <<",">> \o SerString(<<"data">>) \o <<":">> \o SerValue(data.data)
        \o <<"}">>

\* results of the parser: the value and the position after it
Parsed(v, next) == [ok |-> TRUE, value |-> v, next |-> next]
Fail == [ok |-> FALSE, value |-> <<>>, next |-> 0]

\* the inside of a JSON string up to its closing quote
RECURSIVE ScanString(_, _, _)
ScanString(line, i, acc) ==
    IF i > Len(line) THEN Fail
    ELSE IF line[i] = "\"" THEN Parsed(acc, i + 1)
    ELSE IF line[i] = "\\"
    THEN IF i + 1 > Len(line) THEN Fail
         ELSE IF line[i + 1] = "n" THEN ScanString(line, i + 2, Append(acc, "\n"))
         ELSE IF line[i + 1] \in {"\"", "\\"}
         THEN ScanString(line, i + 2, Append(acc, line[i + 1]))
         ELSE Fail
    ELSE IF line[i] = "\n" THEN Fail
    ELSE ScanString(line, i + 1, Append(acc, line[i]))

ParseString(line, i) ==
    IF i <= Len(line) /\ line[i] = "\"" THEN ScanString(line, i + 1, <<>>)
    ELSE Fail

ParseScalar(line, i) ==
    IF i > Len(line) THEN Fail
    ELSE IF line[i] = "null" THEN Parsed(JNull, i + 1)
    ELSE IF line[i] \in NumberTokens THEN Parsed(JNumber(line[i]), i + 1)
    ELSE LET str == ParseString(line, i)
         IN  IF str.ok THEN Parsed(JsonString(str.value), str.next) ELSE Fail

\* "key":value pairs up to the closing brace; the values are scalars when
\* nested, any value at the top
RECURSIVE ParseMembers(_, _, _, _)
ParseValue(line, i) ==
    IF i <= Len(line) /\ line[i] = "{"
    THEN LET ms == ParseMembers(line, i + 1, <<>>, TRUE)
         IN  IF ms.ok THEN Parsed(JObject(ms.value), ms.next) ELSE Fail
    ELSE ParseScalar(line, i)

ParseMembers(line, i, acc, nested) ==
    LET key == ParseString(line, i)
        colon == key.ok /\ key.next <= Len(line) /\ line[key.next] = ":"
        val == IF ~colon THEN Fail
               ELSE IF nested THEN ParseScalar(line, key.next + 1)
               ELSE ParseValue(line, key.next + 1)
        ms == Append(acc, [k |-> key.value, v |-> val.value])
    IN  IF ~val.ok \/ val.next > Len(line) THEN Fail
        ELSE IF line[val.next] = "}" THEN Parsed(ms, val.next + 1)
        ELSE IF line[val.next] = "," THEN ParseMembers(line, val.next + 1, ms, nested)
        ELSE Fail

\* the value of a member of an object
Member(ms, key) ==
    LET at == {i \in 1..Len(ms) : ms[i].k = <<key>>}
    IN  IF at = {} THEN None ELSE Some(ms[CHOOSE i \in at : TRUE].v)

\* serde_json::from_str::<StreamingData>(line): Some(data), None for Err
FromJsonString(line) ==
    IF line = <<>> \/ line[1] # "{" THEN None
    ELSE LET ms == ParseMembers(line, 2, <<>>, FALSE)
         IN  IF ~ms.ok \/ ms.next # Len(line) + 1 THEN None
             ELSE LET ts == Member(ms.value, "timestamp")
                      mt == Member(ms.value, "message_type")
                      sy == Member(ms.value, "symbol")
                      da == Member(ms.value, "data")
                  IN  IF \/ ts = None \/ mt = None \/ sy = None \/ da = None
                         \/ ts[1].json # "string" \/ Len(ts[1].value) # 1
                         \/ mt[1].json # "string"
                         \/ sy[1].json \notin {"null", "string"}
                      THEN None
                      ELSE IF ParseRfc3339(ts[1].value[1]) = None THEN None
                      ELSE Some([timestamp |-> ParseRfc3339(ts[1].value[1])[1],
                                 message_type |-> mt[1].value,
                                 symbol |-> IF sy[1].json = "null" THEN None
                                            ELSE Some(sy[1].value),
                                 data |-> da[1]])

\* BufReader::lines: the text cut at the line feeds
RECURSIVE Lines(_, _)
Lines(text, cur) ==
    IF text = <<>> THEN (IF cur = <<>> THEN <<>> ELSE <<cur>>)
    ELSE IF Head(text) = "\n" THEN <<cur>> \o Lines(Tail(text), <<>>)
    ELSE Lines(Tail(text), Append(cur, Head(text)))

\* analyzer.rs:93-103  the lines that are not empty, start with { and
\* parse, in file order
RECURSIVE ReadBack(_)
ReadBack(ls) ==
    IF ls = <<>> THEN <<>>
    ELSE LET line == Head(ls)
             data == IF line = <<>> \/ line[1] # "{" THEN None
                     ELSE FromJsonString(line)
         IN  data \o ReadBack(Tail(ls))

\* write_streaming_data on a JSON sink: writeln of serde_json::to_string
Serialize ==
    /\ json_line = <<>>
    /\ json_line' = ToJsonString(json_in) \o <<"\n">>
    /\ UNCHANGED <<json_in, json_out, processVars, sinkVars, streamVars,
                   histVars, concVars>>

\* the analyzer reads the output back with --format json
Analyze ==
    /\ json_line # <<>> /\ json_out = None
    /\ json_out' = Some(ReadBack(Lines(json_line, <<>>)))
    /\ UNCHANGED <<json_in, json_line, processVars, sinkVars, streamVars,
                   histVars, concVars>>

JsonInit ==
    /\ max_retries = DefaultMaxRetries
    /\ ProcessStart
    /\ NoSink
    /\ NoStream
    /\ NoConc
    /\ NoHist
    /\ json_in \in JsonRecords
    /\ json_line = <<>>
    /\ json_out = None

JsonNext == Serialize \/ Analyze

JsonSpec == JsonInit /\ [][JsonNext]_vars

\* ------------------------------------------------- the historical-data CLI
\* historical.rs:235  args.page_size > 10000
PageSizeLimit == 10000

\* the command lines: one or two symbols; dates as day numbers, 0 for text
\* that is no YYYY-MM-DD date; a timeframe and a feed that are spelled as
\* in the help text, in another accepted spelling, or not accepted; page
\* sizes at and next to both ends of the range; with or without --output
SymbolLists == {<<"AAPL">>, <<"AAPL", "MSFT">>}
DateArgs == 0..MaxDay
TimeframeArgs == {"1Day", "1h", "2Day"}
FeedArgs == {"sip", "IEX", "nasdaq"}
PageSizes == {0, 1, PageSizeLimit, PageSizeLimit + 1}

HistArgs ==
    [symbols : SymbolLists, start : DateArgs, end : DateArgs,
     timeframe : TimeframeArgs, feed : FeedArgs, page_size : PageSizes,
     output : BOOLEAN, format : Formats, append : BOOLEAN]

\* parse_date: NaiveDate::parse_from_str, formatted back as %Y-%m-%d
ParseDate(d) == IF d = 0 THEN None ELSE Some(d)

\* validate_timeframe: the lower-cased argument looked up in the table
ValidateTimeframe(tf) ==
    CASE tf = "1Day" -> Some("1Day")
      [] tf = "1h" -> Some("1Hour")
      [] OTHER -> None

\* validate_feed
ValidateFeed(feed) ==
    CASE feed = "sip" -> Some("Sip")
      [] feed = "IEX" -> Some("Iex")
      [] OTHER -> None

\* historical.rs:235  the page size test of main
PageSizeRejected(n) == n > PageSizeLimit

\* a validation that lets every feed pass
ValidationError_NoFeedCheck(a) ==
    IF ParseDate(a.start) = None THEN Some("invalid start date")
    ELSE IF ParseDate(a.end) = None THEN Some("invalid end date")
    ELSE IF ParseDate(a.start)[1] >= ParseDate(a.end)[1]
    THEN Some("Start date must be before end date")
    ELSE IF ValidateTimeframe(a.timeframe) = None THEN Some("Invalid timeframe")
    ELSE IF PageSizeRejected(a.page_size) THEN Some("Page size cannot exceed 10000")
    ELSE None

\* historical.rs:220-237  the first validation that fails, None when all pass
ValidationError(a) ==
    IF ParseDate(a.start) = None THEN Some("invalid start date")
    ELSE IF ParseDate(a.end) = None THEN Some("invalid end date")
    ELSE IF ParseDate(a.start)[1] >= ParseDate(a.end)[1]
    THEN Some("Start date must be before end date")
    ELSE IF ValidateTimeframe(a.timeframe) = None THEN Some("Invalid timeframe")
    ELSE IF ValidateFeed(a.feed) = None THEN Some("Invalid feed")
    ELSE IF PageSizeRejected(a.page_size) THEN Some("Page size cannot exceed 10000")
    ELSE None

\* main returns: Ok(()) is exit status 0, Err(e) is exit status 1
HistExit(code, error) ==
    /\ hpc' = "exited"
    /\ hexit' = Some([code |-> code, error |-> error])

\* historical.rs:215-249  the arguments are validated and echoed
HistValidate ==
    /\ hpc = "start"
    /\ LET err == ValidationError(hargs)
       IN  IF err # None THEN HistExit(1, err[1])
           ELSE hpc' = "validated" /\ UNCHANGED hexit
    /\ UNCHANGED <<hargs, requests, hsym, page_token, all_bars, results,
                   total_bars, sinkVars, processVars, streamVars, jsonVars, concVars>>

\* historical.rs:252-256  the output mode is created
HistOpenSink(ok1, ok2, hok) ==
    /\ hpc = "validated"
    /\ IF hargs.output
       THEN CreateFileMode(hargs.format, hargs.append, ok1, ok2, hok)
       ELSE CreateConsoleMode(hargs.format)
    /\ IF create_result' = "Ok" THEN hpc' = "sink" /\ UNCHANGED hexit
       ELSE HistExit(1, "create_file_mode")
    /\ UNCHANGED <<hargs, requests, hsym, page_token, all_bars, results,
                   total_bars, concVars>>

\* historical.rs:258-268  the CSV header line (wok: its writeln succeeds),
\* AlpacaClient::new (cok), the loop over the symbols is entered
HistPrepare(wok, cok) ==
    /\ hpc = "sink"
    /\ IF hargs.format = "Csv" /\ ~wok THEN HistExit(1, "sink")
       ELSE IF ~cok THEN HistExit(1, "AlpacaClient::new")
       ELSE hpc' = "fetching" /\ UNCHANGED hexit
    /\ hsym' = 1
    /\ UNCHANGED <<hargs, requests, page_token, all_bars, results, total_bars,
                   sinkVars, processVars, streamVars, jsonVars, concVars>>

\* what the server answers to one get_stock_bars call: an error, bars for
\* the symbol with or without a next page token, an empty list of bars for
\* the symbol, or no entry for the symbol
Responses == {"error", "page_more", "page_last", "empty", "missing"}

\* a request that always asks for the first page
BarsRequest_FirstPage(a, symbol, token) ==
    [symbol |-> symbol, timeframe |-> ValidateTimeframe(a.timeframe)[1],
     start |-> ParseDate(a.start)[1], end |-> ParseDate(a.end)[1],
     page_token |-> None, limit |-> a.page_size,
     feed |-> ValidateFeed(a.feed)[1]]

\* historical.rs:162-173  the request fetch_historical_data sends
BarsRequest(a, symbol, token) ==
    [symbol |-> symbol, timeframe |-> ValidateTimeframe(a.timeframe)[1],
     start |-> ParseDate(a.start)[1], end |-> ParseDate(a.end)[1],
     page_token |-> token, limit |-> a.page_size,
     feed |-> ValidateFeed(a.feed)[1]]

\* historical.rs:161-198 and 269-287  one turn of the loop of
\* fetch_historical_data: the request, the bars of the page pushed with
\* the symbol set, the next page token kept; when the loop ends, main adds
\* the bars to the total and writes one line per bar (wok), or reports the
\* error, and goes to the next symbol
HistRequest(resp, wok) ==
    /\ hpc = "fetching"
    /\ resp = "page_more" => Len(all_bars) < MaxPages
    /\ LET symbol == hargs.symbols[hsym]
           page == Len(all_bars) + 1
           bars == IF resp \in {"page_more", "page_last"}
                   THEN Append(all_bars, [symbol |-> symbol, page |-> page])
                   ELSE all_bars
           res == IF resp = "error"
                  THEN [symbol |-> symbol, ok |-> FALSE, bars |-> <<>>]
                  ELSE [symbol |-> symbol, ok |-> TRUE, bars |-> bars]
       IN  /\ requests' = Append(requests, BarsRequest(hargs, symbol, page_token))
           /\ IF resp = "page_more"
              THEN /\ all_bars' = bars
                   /\ page_token' = Some(page)
                   /\ UNCHANGED <<hpc, hexit, hsym, results, total_bars>>
              ELSE /\ all_bars' = <<>>
                   /\ page_token' = None
                   /\ results' = Append(results, res)
                   /\ total_bars' = total_bars + Len(res.bars)
                   /\ IF res.bars # <<>> /\ ~wok
                      THEN HistExit(1, "sink") /\ UNCHANGED hsym
                      ELSE IF hsym < Len(hargs.symbols)
                      THEN hsym' = hsym + 1 /\ UNCHANGED <<hpc, hexit>>
                      ELSE HistExit(0, "") /\ UNCHANGED hsym
    /\ UNCHANGED <<hargs, sinkVars, processVars, streamVars, jsonVars, concVars>>

HistInit ==
    /\ max_retries = DefaultMaxRetries
    /\ ProcessStart
    /\ NoStream
    /\ NoConc
    /\ NoJson
    /\ Unopened
    /\ fs \in {[parent |-> FALSE, exists |-> FALSE, content |-> <<>>],
               [parent |-> TRUE, exists |-> FALSE, content |-> <<>>],
               [parent |-> TRUE, exists |-> TRUE, content |-> OldContent]}
    /\ hargs \in HistArgs
    /\ hpc = "start"
    /\ hexit = None
    /\ requests = <<>>
    /\ hsym = 0
    /\ page_token = None
    /\ all_bars = <<>>
    /\ results = <<>>
    /\ total_bars = 0

HistNext ==
    \/ HistValidate
    \/ \E ok1, ok2, hok \in BOOLEAN : HistOpenSink(ok1, ok2, hok)
    \/ \E wok, cok \in BOOLEAN : HistPrepare(wok, cok)
    \/ \E resp \in Responses, wok \in BOOLEAN : HistRequest(resp, wok)

HistSpec == HistInit /\ [][HistNext]_vars

\* ------------------------------------------- the mutexes of a File sink
\* the calls a clone can make on the sink
CallKinds == {"write", "writeln", "record"}

\* lib.rs:56 and lib.rs:83, 88  write, writeln and the Plain and Json
\* records lock `file`; lib.rs:94  the Csv record locks `csv_writer`
HandleOf(kind, format) ==
    IF kind = "record" /\ format = "Csv" THEN "csv_writer" ELSE "file"

\* a lock that is granted whoever holds the mutex
CanLock_Always(m, h) == TRUE

\* Mutex::lock returns only once nobody holds the mutex
CanLock(m, h) == m[h] = ""

\* a clone of the sink enters write, writeln or write_streaming_data and
\* reaches the lock() of the handle the call uses
LockCall(c, kind) ==
    /\ CanWrite
    /\ sink[1].kind = "File"
    /\ writers[c].pc = "idle"
    /\ writers' = [writers EXCEPT ![c] =
                       [pc |-> "waiting", kind |-> kind,
                        handle |-> HandleOf(kind, sink[1].format)]]
    /\ UNCHANGED <<mutex, inflight, sinkVars>>

\* lib.rs:56, 83, 88, 94  lock().unwrap() returns the guard
Acquire(c) ==
    /\ writers[c].pc = "waiting"
    /\ CanLock(mutex, writers[c].handle)
    /\ mutex' = [mutex EXCEPT ![writers[c].handle] = c]
    /\ writers' = [writers EXCEPT ![c].pc = "locked"]
    /\ UNCHANGED <<inflight, sinkVars>>

\* lib.rs:57-58, 84-85, 89-90, 95-96  the write and the flush made through
\* the guard; wok: both succeed
Inside(c, wok) ==
    /\ writers[c].pc = "locked"
    /\ CASE writers[c].kind = "write" -> Write(1, wok)
         [] writers[c].kind = "writeln" -> Writeln(1, wok)
         [] writers[c].kind = "record" -> WriteRecord(wok)
    /\ writers' = [writers EXCEPT ![c].pc = "written"]
    /\ UNCHANGED <<mutex, inflight>>

\* a call that returns with its guard still alive
Release_KeepsLock(c) ==
    /\ writers[c].pc = "written"
    /\ mutex' = mutex
    /\ writers' = [writers EXCEPT ![c] = IdleWriter]
    /\ UNCHANGED <<inflight, sinkVars>>

\* lib.rs:59, 86, 91, 97  the guard goes out of scope (also on the early
\* return of `?`) and the call returns
Release(c) ==
    /\ writers[c].pc = "written"
    /\ mutex' = [mutex EXCEPT ![writers[c].handle] = ""]
    /\ writers' = [writers EXCEPT ![c] = IdleWriter]
    /\ UNCHANGED <<inflight, sinkVars>>

\* the output path is absent in an existing directory, no sink yet
LockInit ==
    /\ max_retries = DefaultMaxRetries
    /\ ProcessStart
    /\ NoStream
    /\ mutex = [h \in Handles |-> ""]
    /\ writers = [c \in Clones |-> IdleWriter]
    /\ inflight = <<>>
    /\ NoJson
    /\ NoHist
    /\ Unopened
    /\ fs = [parent |-> TRUE, exists |-> FALSE, content |-> <<>>]

LockNext ==
    \/ /\ \E format \in Formats, append \in BOOLEAN :
              CreateFileMode(format, append, TRUE, TRUE, TRUE)
       /\ UNCHANGED <<histVars, concVars>>
    \/ \E c \in Clones, kind \in CallKinds :
           LockCall(c, kind) /\ UNCHANGED <<processVars, streamVars, jsonVars, histVars>>
    \/ \E c \in Clones :
           Acquire(c) /\ UNCHANGED <<processVars, streamVars, jsonVars, histVars>>
    \/ \E c \in Clones, wok \in BOOLEAN : Inside(c, wok) /\ UNCHANGED histVars
    \/ \E c \in Clones :
           Release(c) /\ UNCHANGED <<processVars, streamVars, jsonVars, histVars>>

LockSpec == LockInit /\ [][LockNext]_vars

\* ------------------------------- the select! of the streaming session
\* lib.rs:281-293  tokio::select! polls its two arms in turn; the callback
\* of connection.run is a synchronous closure, so a poll of the run arm that
\* has entered the callback returns only after the callback has returned
SelectPolls_Anytime(f) == TRUE

SelectPolls(f) == f = None

\* lib.rs:282-283  connection.run calls the callback with an event; the
\* handler reads the clock for the record it builds
Arrive(m, now) ==
    /\ pc = "session" /\ phase = "Streaming"
    /\ events < MaxEvents
    /\ inflight = None
    /\ inflight' = Some([msg |-> m, at |-> now, stage |-> "handling"])
    /\ UNCHANGED <<processVars, sinkVars, streamVars, jsonVars, histVars,
                   mutex, writers>>

\* lib.rs:83-96  write_streaming_data has put a part of the record into
\* the sink and has not returned yet
BeginWrite ==
    /\ inflight # None
    /\ inflight[1].stage = "handling"
    /\ ProcessStreamingMessage(inflight[1].msg, TRUE).handed # <<>>
    /\ inflight' = Some([inflight[1] EXCEPT !.stage = "writing"])
    /\ UNCHANGED <<processVars, sinkVars, streamVars, jsonVars, histVars,
                   mutex, writers>>

\* lib.rs:283  process_streaming_message returns to connection.run
Complete(wok, cont, mwok) ==
    /\ inflight # None
    /\ Receive(inflight[1].msg, inflight[1].at, wok, cont, mwok)
    /\ inflight' = None
    /\ UNCHANGED <<mutex, writers>>

\* lib.rs:291, 294  the two shutdown lines of a session, as entries of the
\* session's output
InterruptLine == [line |-> "Received interrupt signal, shutting down gracefully..."]
TerminatedLine == [line |-> "Advanced streaming example terminated."]

\* lib.rs:284-288, 294  the run arm of the select! completes: an Err is
\* returned at once, otherwise the last line is written (wok)
RunArm(r, wok, mwok) ==
    /\ inflight = None
    /\ RunEnds(r, wok, mwok)
    /\ log' = IF ~RunArmReturnsErr(r) /\ wok THEN Append(log, TerminatedLine)
              ELSE log
    /\ UNCHANGED <<arrivals, sinkVars, jsonVars, histVars, concVars>>

\* lib.rs:290-294  the ctrl_c arm of the select! completes: the interrupt
\* line is written (w1), then the last line (w2)
CancelArm(w1, w2, mwok) ==
    /\ SelectPolls(inflight)
    /\ Cancelled(w1 /\ w2, mwok)
    /\ log' = IF ~w1 THEN log
              ELSE IF ~w2 THEN Append(log, InterruptLine)
              ELSE log \o <<InterruptLine, TerminatedLine>>
    /\ UNCHANGED <<arrivals, sinkVars, jsonVars, histVars, concVars>>

RaceInit == DispatchInit

RaceNext ==
    \/ \E m \in SessionMessages, now \in Clock : Arrive(m, now)
    \/ BeginWrite
    \/ \E wok, cont, mwok \in BOOLEAN : Complete(wok, cont, mwok)
    \/ \E r \in {"ok", "err"}, wok, mwok \in BOOLEAN : RunArm(r, wok, mwok)
    \/ \E w1, w2, mwok \in BOOLEAN : CancelArm(w1, w2, mwok)
    \/ Interrupt /\ UNCHANGED restVars

RaceSpec == RaceInit /\ [][RaceNext]_vars

\* =================================================================== claims

\* the delays of the specification: 2, 4, 8, 16, 32, 64 and 64 from then on
DelayTable == <<2, 4, 8, 16, 32, 64>>
ExpectedDelay(k) == IF k <= 6 THEN DelayTable[k] ELSE 64

\* C1: the delay slept after the k-th failed attempt of the process run is
\* 2^k seconds for k <= 6 and 64 seconds for every k > 6: this holds of the
\* sleep in progress (k = retry_count) and of every sleep already finished.
C1_BackoffDelay ==
    /\ pc = "sleeping" => backoff = ExpectedDelay(retry_count)
    /\ \A k \in 1..Len(slept) : slept[k] = ExpectedDelay(k)

\* C1 witness: the supervisor sleeps after the 7th failure, the six sleeps
\* before it are over
C1_Witness ==
    pc = "sleeping" /\ retry_count = 7 /\ Len(slept) = 6 /\ backoff = 64

\* C2: for max_retries >= 1 no more than max_retries attempts are made; once
\* max_retries attempts have failed the process has reported the exhaustion
\* and exited with status 1 and the error of the last failed attempt.
C2_RetryCeiling ==
    max_retries >= 1 =>
        /\ attempts <= max_retries
        /\ retry_count <= max_retries
        /\ retry_count = max_retries =>
               /\ pc = "exited" /\ exit_code = 1
               /\ ~last_result.ok
               /\ exit_error = Some(last_result.err)
               /\ Len(diag) = 2 /\ diag[2].line = "Max retries reached"
               /\ attempts = max_retries

\* C2 witness: a run with ceiling 3 ended after its third failed attempt
C2_Witness ==
    /\ max_retries = 3 /\ retry_count = 3 /\ attempts = 3
    /\ pc = "exited" /\ exit_error = Some("timeout")

\* the attempt that just ended returned res-like results
Ended == phase = "Terminated"

\* C3 (as claimed): when run_streaming_client has returned Ok the loop is
\* over: retry_count was not incremented (every earlier attempt failed, so
\* it is attempts - 1), no sleep is in progress or was added, and the
\* process has exited with status 0.
C3_OkStopsLoop ==
    (Ended /\ last_result.ok) =>
        /\ retry_count = attempts - 1
        /\ Len(slept) = retry_count
        /\ pc = "exited" /\ backoff = 0
        /\ exit_code = 0

\* the order of the session states
StateOrder == <<"Connecting", "Authenticating", "Subscribing", "Streaming">>

\* C4: an attempt goes through Connecting, Authenticating, Subscribing,
\* Streaming in this order without skipping one (and may terminate after any
\* of them); authenticate is called only after connect returned Ok,
\* subscribe only after authenticate returned Ok before its deadline and
\* with the three symbol sets, and the callback gets an event only after
\* subscribe returned Ok before its deadline.
C4_SessionOrder ==
    /\ attempts > 0 =>
           \E n \in 1..Len(trace) :
               /\ IsPrefix(SubSeq(trace, 1, n), StateOrder)
               /\ \/ n = Len(trace)
                  \/ n + 1 = Len(trace) /\ trace[n + 1] = "Terminated"
    /\ IsPrefix(calls, <<"connect", "authenticate", "subscribe", "run">>)
    /\ "authenticate" \in Range(calls) => "connect" \in succeeded
    /\ "subscribe" \in Range(calls) =>
           "authenticate" \in succeeded /\ subscriptions = DataTypes
    /\ "run" \in Range(calls) => "subscribe" \in succeeded
    /\ (events > 0 \/ lastDispatch # None) =>
           /\ "subscribe" \in succeeded
           /\ "Streaming" \in Range(trace)
    /\ phase \in Range(StateOrder) => trace[Len(trace)] = phase

\* C4 witness: an attempt is Streaming after the three calls succeeded and
\* has dispatched an event
C4_Witness ==
    /\ phase = "Streaming" /\ trace = StateOrder /\ events > 0
    /\ succeeded = {"connect", "authenticate", "subscribe"}

\* C5 (as claimed): an attempt whose authenticate or subscribe timed out
\* ended with an error, never was Streaming and dispatched nothing; if it
\* is the first failed attempt and max_retries > 1 the supervisor sleeps 2
\* seconds (unless an interrupt has ended the process in the meantime).
C5_TimeoutThenRetry ==
    (Ended /\ last_result.via \in {"auth_timeout", "subscribe_timeout"}) =>
        /\ ~last_result.ok
        /\ "Streaming" \notin Range(trace)
        /\ events = 0 /\ lastDispatch = None
        /\ (retry_count = 1 /\ max_retries > 1 /\ exit_code # 130) =>
               pc = "sleeping" /\ backoff = 2

\* C6 (as claimed): when the ctrl_c arm was taken while Streaming,
\* run_streaming_client returned Ok and the process has exited with status
\* 0: no sleep, no further attempt.
C6_CancelIsClean ==
    (Ended /\ last_result.via = "cancel") =>
        /\ last_result.ok
        /\ pc = "exited" /\ exit_code = 0 /\ backoff = 0

\* C7 (as claimed): when connection.run finished by itself while Streaming,
\* with an error or because the connection ended, the attempt returned an
\* error to the supervisor; only the cancellation arm returns Ok.
C7_RunEndIsError ==
    /\ (Ended /\ last_result.via \in {"run_err", "run_ok"}) => ~last_result.ok
    /\ (Ended /\ last_result.ok) => last_result.via = "cancel"

\* the sink write of a dispatch failed: a record was handed to
\* write_streaming_data and did not reach the sink
SinkWriteFailed(d) == d.out.handed # <<>> /\ d.out.written = <<>>

\* C8 (as claimed): a failed sink write stays at its event:
\* process_streaming_message returns Ok to the receive loop and the attempt
\* does not end because of it.
C8_SinkFailureContained ==
    \A i \in 1..Len(lastDispatch) :
        SinkWriteFailed(lastDispatch[i]) =>
            lastDispatch[i].out.result = "Ok" /\ ~lastDispatch[i].aborted

\* the payload of a typed event has the shape of its tag
Decodable(m) == m.symbol # None /\ m.shape = m.message_type

\* C9: an event tagged t, q or b whose payload does not decode writes no
\* record (none is handed to the sink), process_streaming_message returns
\* Ok and the session is still Streaming.
C9_DecodeFailureDropped ==
    \A i \in 1..Len(lastDispatch) :
        LET d == lastDispatch[i] IN
        (d.msg.message_type \in TypedTags /\ ~Decodable(d.msg)) =>
            /\ d.out.handed = <<>> /\ d.out.written = <<>>
            /\ d.out.result = "Ok"
            /\ ~d.aborted /\ phase = "Streaming"

\* C9 witness: the second event of a session was a quote whose payload has
\* the fields of a trade; a diagnostic was printed and the session goes on
C9_Witness ==
    /\ events = 2 /\ lastDispatch # None /\ phase = "Streaming"
    /\ lastDispatch[1].msg.message_type = "q"
    /\ lastDispatch[1].msg.shape = "t"
    /\ lastDispatch[1].out.diag # <<>>

StatusTags == {"success", "subscription", "error"}

\* a recognized tag with a valid matching payload: a typed event that
\* decodes, a status event that carries its message
ValidRecognized(m) ==
    \/ m.message_type \in TypedTags /\ Decodable(m)
    \/ m.message_type \in StatusTags /\ m.message # None

\* C10: for an event with a recognized tag and a valid matching payload
\* process_streaming_message hands exactly one record to the sink, the
\* record has a symbol iff the tag is t, q or b, and it is the one record
\* in the sink whenever the write returned Ok (nothing is, otherwise).
C10_OneRecordPerValidEvent ==
    \A i \in 1..Len(lastDispatch) :
        LET d == lastDispatch[i] IN
        ValidRecognized(d.msg) =>
            /\ Len(d.out.handed) = 1
            /\ d.out.handed[1].message_type = d.msg.message_type
            /\ (d.out.handed[1].symbol # None) <=> (d.msg.message_type \in TypedTags)
            /\ d.out.written = IF d.out.result = "Ok" THEN d.out.handed ELSE <<>>

\* C10 witness: a status event with its message was dispatched and written
C10_Witness ==
    /\ lastDispatch # None
    /\ lastDispatch[1].msg.message_type = "subscription"
    /\ lastDispatch[1].msg.message # None
    /\ Len(lastDispatch[1].out.written) = 1

\* C11: for an event tagged success, subscription or error that carries its
\* message, exactly one record is handed to the sink: its tag is the
\* event's, its payload is the message as a JSON string, it has no symbol,
\* and it is in the sink when the write returned Ok; without the message
\* nothing is handed or written and the dispatch returns Ok.
C11_StatusMessage ==
    \A i \in 1..Len(lastDispatch) :
        LET d == lastDispatch[i] IN
        d.msg.message_type \in StatusTags =>
            IF d.msg.message # None
            THEN /\ d.out.handed =
                        <<[message_type |-> d.msg.message_type,
                           symbol |-> <<>>,
                           data |-> [json |-> "string", value |-> d.msg.message[1]]]>>
                 /\ d.out.written = IF d.out.result = "Ok" THEN d.out.handed ELSE <<>>
            ELSE /\ d.out.handed = <<>> /\ d.out.written = <<>>
                 /\ d.out.result = "Ok" /\ ~d.aborted

\* C11 witness: an error event without a message was dispatched after an
\* earlier event; nothing was written and the session goes on
C11_Witness ==
    /\ events = 2 /\ lastDispatch # None /\ phase = "Streaming"
    /\ lastDispatch[1].msg.message_type = "error"
    /\ lastDispatch[1].msg.message = None
    /\ lastDispatch[1].out.result = "Ok"

\* C12: for an event whose tag is none of t, q, b, success, subscription,
\* error exactly one record is handed to the sink: it carries the event's
\* own tag, no symbol and the raw payload of the event unchanged, and it is
\* in the sink when the write returned Ok.
C12_UnknownPassThrough ==
    \A i \in 1..Len(lastDispatch) :
        LET d == lastDispatch[i] IN
        d.msg.message_type \notin (TypedTags \cup StatusTags) =>
            /\ Len(d.out.handed) = 1
            /\ d.out.handed[1].message_type = d.msg.message_type
            /\ d.out.handed[1].symbol = None
            /\ d.out.handed[1].data = [json |-> "raw", value |-> d.msg.data]
            /\ d.out.written = IF d.out.result = "Ok" THEN d.out.handed ELSE <<>>

\* C12 witness: an event of an unknown tag with a raw payload, a symbol and
\* a message was dispatched and its record written
C12_Witness ==
    /\ lastDispatch # None
    /\ lastDispatch[1].msg.message_type = "status"
    /\ lastDispatch[1].msg.data = "raw"
    /\ lastDispatch[1].msg.symbol # None
    /\ Len(lastDispatch[1].out.written) = 1

\* ------------------------------------------------- claims about the sink
\* the cells occur in the content, all of them, side by side and in order
Contains(content, cells) ==
    \E i \in 0..(Len(content) - Len(cells)) :
        \A j \in 1..Len(cells) : content[i + j] = cells[j]

\* the number of lines of the content that read like the given record
LinesReading(content, fields) ==
    Cardinality({i \in 1..Len(content) :
        /\ i = 1 \/ content[i - 1].end = "\n"
        /\ i + Len(fields) - 1 <= Len(content)
        /\ \A j \in 1..Len(fields) :
              /\ content[i + j - 1].ch = fields[j]
              /\ content[i + j - 1].end =
                     (IF j = Len(fields) THEN "\n" ELSE ",")})

\* the cells of the first n calls, in call order; of those that returned
\* Ok only when okOnly
RECURSIVE CellsOf(_, _)
CellsOf(n, okOnly) ==
    IF n = 0 THEN <<>>
    ELSE CellsOf(n - 1, okOnly)
            \o (IF okOnly /\ ops[n].result # "Ok" THEN <<>> ELSE ops[n].cells)

IsFileSink == sink # None /\ sink[1].kind = "File"
\* only writeln and write_streaming_data have been called
LinesAndRecordsOnly ==
    \A i \in 1..Len(ops) : ops[i].kind \in {"writeln", "record"}
IsConsoleSink == sink # None /\ sink[1].kind = "Console"
IsCsvFileSink == IsFileSink /\ sink[1].format = "Csv"

\* C13: the file of a CSV file sink created with append = false contains
\* the header line timestamp,message_type,symbol,data exactly once after
\* construction and after any sequence of write calls; with append = true
\* the constructor has written no header.
C13_HeaderExactlyOnce ==
    (IsCsvFileSink /\ LinesAndRecordsOnly) =>
        IF sink[1].append
        THEN \A i \in 1..Len(fs.content) : fs.content[i].w # 0
        ELSE LinesReading(fs.content, HeaderFields) = 1

\* C14: on a CSV file sink created with append = false, once writeln has
\* been called with lines L1..Ln and nothing else has been written through
\* the sink, the file is exactly L1..Ln.
C14_WritelnLinesOnly ==
    ( /\ IsCsvFileSink /\ ~sink[1].append
      /\ ops # <<>>
      /\ \A i \in 1..Len(ops) : ops[i].kind = "writeln" /\ ops[i].result = "Ok" )
    => fs.content = CellsOf(Len(ops), FALSE)

\* C15: on a file sink of any format, whatever the order of the writeln and
\* write_streaming_data calls, every call that returned Ok has its line or
\* record in the file, whole and in one piece.
C15_CompletedWritesIntact ==
    (IsFileSink /\ LinesAndRecordsOnly) =>
        \A i \in 1..Len(ops) :
            ops[i].result = "Ok" => Contains(fs.content, ops[i].cells)

\* C16: on a console or file sink of any format, when a write call has
\* returned Ok what it wrote is in the destination and the buffer it wrote
\* through is empty; between calls no buffer holds anything of a call that
\* returned Ok, so a stop between calls loses no such line or record.
C16_FlushedBeforeOk ==
    sink # None =>
        /\ \A i \in 1..Len(csv_buf) : ops[csv_buf[i].w].result # "Ok"
        /\ \A i \in 1..Len(stdout_buf) : ops[stdout_buf[i].w].result # "Ok"
        /\ (ops # <<>> /\ ops[Len(ops)].result = "Ok") =>
              /\ Contains(IF IsFileSink THEN fs.content ELSE stdout,
                          ops[Len(ops)].cells)
              /\ IsConsoleSink => stdout_buf = <<>>
              /\ (IsCsvFileSink /\ ops[Len(ops)].kind = "record") => csv_buf = <<>>

\* C16 witness: on a CSV file sink a record whose flush failed stayed in
\* the writer's buffer, and the next record was written and returned Ok
C16_Witness ==
    /\ IsCsvFileSink
    /\ Len(ops) = 2
    /\ ops[1].kind = "record" /\ ops[1].result = "Err"
    /\ ops[2].kind = "record" /\ ops[2].result = "Ok"

\* C18: a file sink that was constructed has its file; with append = false
\* nothing of the previous content is left; with append = true the previous
\* content stays at the front, the lines of the calls that returned Ok
\* follow it in call order, and when no call failed the file is the
\* previous content followed by the written lines in order.
C18_CreateTruncateAppend ==
    IsFileSink =>
        /\ fs.exists
        /\ ~sink[1].append => \A i \in 1..Len(fs.content) : fs.content[i].w # -1
        /\ sink[1].append =>
              LET tail == SubSeq(fs.content, Len(old) + 1, Len(fs.content))
                  FromOk(c) == c.w >= 1 /\ ops[c.w].result = "Ok"
              IN  /\ IsPrefix(old, fs.content)
                  /\ SelectSeq(tail, FromOk) = CellsOf(Len(ops), TRUE)
                  /\ (\A i \in 1..Len(ops) : ops[i].result = "Ok")
                        => fs.content = old \o CellsOf(Len(ops), FALSE)

\* C18 witness: a sink opened with append = true on a file with earlier
\* content, after a line and a record were written
C18_Witness ==
    /\ IsFileSink /\ sink[1].append
    /\ old = OldContent
    /\ Len(ops) = 2
    /\ ops[1].kind = "writeln" /\ ops[1].result = "Ok"
    /\ ops[2].kind = "record" /\ ops[2].result = "Ok"

\* C19: when the directory of the output path does not exist,
\* create_file_mode returns an error and no sink, whatever the format and
\* the append setting, and creates nothing; on a sink that was constructed
\* writeln returns Ok whenever the underlying write succeeds.
C19_MissingParentIsError ==
    /\ (create_result # "none" /\ ~fs.parent /\ ~IsConsoleSink) =>
           create_result = "Err" /\ sink = None /\ ~fs.exists
    /\ \A i \in 1..Len(ops) :
           (ops[i].kind = "writeln" /\ ops[i].io) => ops[i].result = "Ok"

\* C19 witness: create_file_mode has returned an error for a path whose
\* directory is missing
C19_Witness == ~fs.parent /\ create_result = "Err" /\ sink = None

\* ------------------------------------------- claims about the stream
\* the records the received events must have left in the sink: for every
\* event in arrival order, the records its handler wrote, stamped with the
\* clock reading of its dispatch
RECURSIVE ExpectedLog(_)
ExpectedLog(n) ==
    IF n = 0 THEN <<>>
    ELSE LET a == arrivals[n]
             out == ProcessStreamingMessage(a.msg, a.io)
         IN  ExpectedLog(n - 1)
                \o [i \in 1..Len(out.written) |->
                       [timestamp |-> a.at] @@ out.written[i]]

\* C17: while a session is Streaming the sink holds, in arrival order, one
\* record for every received event whose handler wrote one, no other record
\* and none twice, and every record carries the clock reading taken at its
\* dispatch, not the event time of the payload; every event received so far
\* has been dispatched to its end.
C17_ArrivalOrder ==
    /\ log = ExpectedLog(Len(arrivals))
    /\ Len(arrivals) = events
    /\ \A i \in 1..Len(log) :
          log[i].timestamp \in Clock /\ log[i].timestamp # PayloadTimestamp

\* C17 witness: two events were received at different clock readings, the
\* later reading first, and both records are in the sink
C17_Witness ==
    /\ phase = "Streaming"
    /\ Len(arrivals) = 2 /\ Len(log) = 2
    /\ arrivals[1].at > arrivals[2].at
    /\ arrivals[1].msg # arrivals[2].msg
    /\ log[1].message_type = arrivals[1].msg.message_type

PageSizeInRange(n) == 0 < n /\ n <= PageSizeLimit

\* C21: the historical-data CLI goes past its validation only with a page
\* size in 1..10000, makes requests only then, and rejects for the page
\* size only a page size outside that range.
C21_PageSizeRange ==
    /\ hpc \in {"validated", "sink", "fetching"} => PageSizeInRange(hargs.page_size)
    /\ requests # <<>> => PageSizeInRange(hargs.page_size)
    /\ (hexit # None /\ hexit[1].error = "Page size cannot exceed 10000")
           => ~PageSizeInRange(hargs.page_size)

\* --------------------------------- claims about the propagation of errors
\* the error kinds that spec section 7 lets reach the supervisor: connection
\* errors (a) and timeouts (b)
ConnectionOrTimeout == {"client", "connect", "timeout", "rejected", "stream"}

\* C22: decode failures and sink write/flush failures are absorbed inside the
\* session: run_streaming_client never returns one of them, so every error
\* result the supervisor sees, and every failed attempt it counts, is a
\* connection or timeout error.
C22_LocalErrorsAbsorbed ==
    (last_result # NoResult /\ ~last_result.ok)
        => last_result.err \in ConnectionOrTimeout

\* ------------------------------------- claims about the sink's mutexes
\* the clones that are between the lock() and the return of a call on h
InsideOf(h) ==
    {c \in Clones : writers[c].pc \in {"locked", "written"} /\ writers[c].handle = h}

\* C23: each handle of a File sink has one mutex, shared by the clones: at
\* most one clone is inside the write+flush of a handle, the mutex of a
\* handle is held exactly by the clone that is inside, and a clone that is
\* not inside a call (idle, or still waiting for the lock) holds no mutex.
C23_OneWriterPerHandle ==
    /\ \A h \in Handles :
          /\ Cardinality(InsideOf(h)) <= 1
          /\ \A c \in Clones : mutex[h] = c <=> c \in InsideOf(h)
    /\ \A c \in Clones :
          writers[c].pc \in {"idle", "waiting"} => \A h \in Handles : mutex[h] # c

\* C23 witness: one clone has written a line through `file` and still holds
\* its mutex, the other clone waits for the same mutex, after an earlier
\* call has returned
C23_Witness ==
    /\ writers["main"].pc = "written" /\ writers["main"].handle = "file"
    /\ writers["callback"].pc = "waiting" /\ writers["callback"].handle = "file"
    /\ mutex["file"] = "main"
    /\ Len(ops) = 2

\* ------------------------------------------ claims about cancellation
\* the entries of the session's output that are event records
IsLine(e) == "line" \in DOMAIN e
EventRecords == SelectSeq(log, LAMBDA e : ~IsLine(e))

\* the sink holds the beginning of a record whose write has not returned
PartialRecord == inflight # None /\ inflight[1].stage = "writing"

\* C24: the run arm and the ctrl_c arm of the select! race and one of them
\* ends the session; whichever does, the callback is not in the middle of an
\* event then: every event that arrived was handled to its end, its record
\* is in the sink whole, and no partial record is left.
C24_NoPartialRecord ==
    phase = "Terminated" =>
        /\ last_result.via \in {"cancel", "run_ok", "run_err"}
        /\ last_result.via = "cancel" => signals > 0
        /\ inflight = None
        /\ ~PartialRecord
        /\ Len(arrivals) = events
        /\ EventRecords = ExpectedLog(Len(arrivals))

\* C24 witness: SIGINT has arrived while the callback is in the middle of
\* writing the record of an event
C24_Witness ==
    /\ phase = "Streaming" /\ ctrl_c
    /\ PartialRecord

\* C25: a SIGINT raised while the session waits for authenticate or for
\* subscribe is noticed by the session during that wait: it becomes the
\* session's pending cancellation.
C25_NoticedDuringWaits ==
    [][(signals' > signals /\ pc = "session"
           /\ phase \in {"Authenticating", "Subscribing"}) => ctrl_c']_vars

\* ------------------------------------------- claims about the supervisor
\* how often the current attempt has invoked a call of the connection
Times(c) == Cardinality({i \in 1..Len(calls) : calls[i] = c})

\* the state in which the session waits for a call
WaitsIn(c) ==
    CASE c = "authenticate" -> "Authenticating"
      [] c = "subscribe" -> "Subscribing"
      [] c = "run" -> "Streaming"
      [] OTHER -> "Connecting"

\* the connections that exist: the one the current attempt created with
\* connect, until run_streaming_client returns and drops it
Connections ==
    IF pc = "session" THEN Times("connect") ELSE 0

\* C26: within one attempt connect, authenticate and subscribe are invoked
\* at most once each; a call that did not succeed is either still pending or
\* the attempt is over; every attempt, the first and every retry, starts in
\* Connecting with no call made and no connection carried over, so at most
\* one connection exists.
C26_OneConnection ==
    /\ \A c \in {"connect", "authenticate", "subscribe"} : Times(c) <= 1
    /\ \A i \in 1..Len(calls) :
          calls[i] \notin succeeded =>
              \/ phase = "Terminated"
              \/ i = Len(calls) /\ phase = WaitsIn(calls[i])
    /\ attempts > 0 => trace[1] = "Connecting"
    /\ phase = "Connecting" => calls = <<>> /\ succeeded = {}
    /\ Connections <= 1

\* C26 witness: the second attempt, after a failed first one, has connected
\* anew and waits for subscribe
C26_Witness ==
    /\ attempts = 2 /\ retry_count = 1
    /\ phase = "Subscribing"
    /\ calls = <<"connect", "authenticate", "subscribe">>
    /\ Connections = 1

\* the attempt that ended last returned an error
LastAttemptFailed == phase = "Terminated" /\ ~last_result.ok

\* C27: whatever made the attempt fail, the failure is counted and the
\* supervisor then either has reached the ceiling or sleeps the delay that
\* the count alone determines (or the process was ended by an interrupt or
\* by a failing write of the retry line).
C27_SameDelayForEveryCause ==
    LastAttemptFailed =>
        /\ retry_count = attempts
        /\ \/ pc = "sleeping" /\ retry_count < max_retries
                              /\ backoff = ExpectedDelay(retry_count)
           \/ pc = "exited" /\ exit_code = 1 /\ retry_count >= max_retries
                            /\ exit_error = Some(last_result.err)
           \/ pc = "exited" /\ exit_code = 1 /\ retry_count < max_retries
                            /\ exit_error = Some("sink(main)")
           \/ pc = "exited" /\ exit_code = 130

\* C27 witness: the second attempt failed by a protocol rejection after the
\* first had failed by a timeout, and the supervisor sleeps 4 seconds
C27_Witness ==
    /\ pc = "sleeping" /\ retry_count = 2 /\ backoff = 4
    /\ last_result.err = "rejected"
    /\ diag[1].attempt = 2

\* the session attempts that have failed so far
FailedAttempts ==
    IF attempts = 0 THEN 0
    ELSE IF LastAttemptFailed THEN attempts
    ELSE attempts - 1

\* C28: the retry counter is 0 at the start, always equals the number of
\* failed attempts so far, and changes only by going up by one, at the end
\* of an attempt that failed.
C28_CounterIsFailedAttempts ==
    /\ [](retry_count = FailedAttempts)
    /\ [][\/ retry_count' = retry_count
          \/ /\ retry_count' = retry_count + 1
             /\ phase # "Terminated" /\ phase' = "Terminated"
             /\ ~last_result'.ok]_vars

\* C28 witness: three attempts have failed, the fourth is running
C28_Witness ==
    /\ retry_count = 3 /\ attempts = 4 /\ pc = "session"

\* C29: a failed attempt is reported first of all, with its count and the
\* ceiling; a sleep in progress was announced with exactly its delay, and so
\* was the sleep that preceded the running attempt; the failure that
\* exhausts the retries is reported as well, followed by the exhaustion.
C29_ReportedBeforeSleep ==
    /\ LastAttemptFailed =>
          /\ diag # <<>>
          /\ diag[1].line = "Streaming error"
          /\ diag[1].attempt = retry_count
          /\ diag[1].of = max_retries
          /\ diag[1].error = last_result.err
    /\ pc = "sleeping" =>
          /\ Len(diag) = 2
          /\ diag[2].line = "Retrying in"
          /\ diag[2].seconds = backoff
    /\ (pc = "session" /\ attempts > 1) =>
          /\ Len(diag) = 2
          /\ diag[2].line = "Retrying in"
          /\ diag[2].seconds = slept[Len(slept)]
    /\ (LastAttemptFailed /\ exit_code # 130 /\ retry_count >= max_retries) =>
          /\ pc = "exited"
          /\ diag[Len(diag)].line = "Max retries reached"

\* C29 witness: the third failure was reported as attempt 3 of 5 and the
\* sleep of 8 seconds in progress was announced as 8 seconds
C29_Witness ==
    /\ pc = "sleeping" /\ backoff = 8
    /\ max_retries = 5
    /\ diag[1].attempt = 3 /\ diag[1].of = 5
    /\ diag[2].seconds = 8

\* the run ended because the retries are exhausted
EndedByExhaustion ==
    /\ pc = "exited" /\ exit_code = 1
    /\ LastAttemptFailed
    /\ exit_error = Some(last_result.err)

\* C30: every finished sleep lies between two consecutive attempts; a run
\* that ends by exhaustion after n failed attempts has slept n-1 times and
\* does not sleep after the last failure; a run that ends with a clean
\* session after n failed attempts has slept n times.
C30_NoSleepAfterExhaustion ==
    /\ Len(slept) = IF attempts = 0 THEN 0 ELSE attempts - 1
    /\ EndedByExhaustion =>
          /\ retry_count >= max_retries
          /\ Len(slept) = retry_count - 1
          /\ backoff = 0
    /\ (pc = "exited" /\ exit_code = 0) =>
          /\ last_result.ok
          /\ Len(slept) = retry_count

\* C30 witness: a run with ceiling 3 ended by exhaustion after two sleeps
C30_Witness ==
    /\ EndedByExhaustion
    /\ max_retries = 3 /\ retry_count = 3
    /\ slept = <<2, 4>>

\* C31: once the output mode exists and the banner is written an attempt is
\* made, whatever the ceiling; with max_retries = 0 there is exactly that
\* one attempt, and when it fails the process exits with status 1 at once:
\* no sleep is started and none was ever finished.
C31_OneAttemptAtLeast ==
    /\ (pc = "exited" /\ attempts = 0) =>
          \/ exit_code = 130
          \/ exit_code = 1 /\ exit_error \in {Some("create_file_mode"),
                                              Some("sink(main)")}
    /\ max_retries = 0 =>
          /\ attempts <= 1
          /\ pc # "sleeping" /\ backoff = 0 /\ slept = <<>>
          /\ LastAttemptFailed =>
                /\ attempts = 1 /\ retry_count = 1
                /\ pc = "exited" /\ exit_code = 1
                /\ exit_error = Some(last_result.err)

\* C31 witness: with max_retries = 0 the one attempt was made, failed at
\* connect, and the process has exited with status 1 without a sleep
C31_Witness ==
    /\ max_retries = 0 /\ attempts = 1
    /\ last_result = Err("connect", "connect")
    /\ pc = "exited" /\ exit_code = 1 /\ slept = <<>>

\* max(1, max_retries): the most attempts a process run can make
AttemptCeiling == IF max_retries >= 1 THEN max_retries ELSE 1

\* C32: when every call of run_streaming_client returns (and every sleep
\* ends), the process eventually exits; it never makes more than
\* max(1, max_retries) attempts, and when it has exited it has an exit
\* status, 0 or not.
C32_SupervisorTerminates ==
    /\ <>(pc = "exited")
    /\ [](attempts <= AttemptCeiling)
    /\ [](pc = "exited" => exit_code \in {0, 1, 130})

\* C32 witness: with ceiling 8 the eighth attempt has failed and the process
\* has exited after seven sleeps
C32_Witness ==
    /\ max_retries = 8 /\ attempts = 8 /\ Len(slept) = 7
    /\ pc = "exited" /\ exit_code = 1

\* C33: in the output of a session every entry after the interrupt line is
\* a line, not an event record: the interrupt line is followed by nothing
\* but the session's last line, and the session is over.
C33_NoRecordAfterInterrupt ==
    \A i \in 1..Len(log) :
        log[i] = InterruptLine =>
            /\ phase = "Terminated"
            /\ last_result.via = "cancel"
            /\ \A j \in (i + 1)..Len(log) : IsLine(log[j])
            /\ Len(log) <= i + 1
            /\ Len(log) = i + 1 => log[i + 1] = TerminatedLine

\* C33 witness: a session wrote the record of an event, then was cancelled
\* and wrote the interrupt line and its last line
C33_Witness ==
    /\ Len(log) = 3
    /\ ~IsLine(log[1])
    /\ log[2] = InterruptLine /\ log[3] = TerminatedLine
    /\ events = 2

\* the mutexes a clone holds
HeldBy(c) == {h \in Handles : mutex[h] = c}

\* C34: no clone ever holds the mutex of `file` and the mutex of
\* `csv_writer` together, none waits for a mutex it holds itself, and
\* whenever a clone is inside a call some clone can take its next step: the
\* one that holds a mutex, or one whose mutex is free.
C34_NoDeadlock ==
    /\ \A c \in Clones :
          /\ Cardinality(HeldBy(c)) <= 1
          /\ writers[c].pc = "waiting" => writers[c].handle \notin HeldBy(c)
    /\ (\E c \in Clones : writers[c].pc # "idle") =>
          \E c \in Clones :
              \/ writers[c].pc \in {"locked", "written"}
              \/ /\ writers[c].pc = "waiting"
                 /\ CanLock(mutex, writers[c].handle)
    /\ \A h \in Handles :
          mutex[h] # "" => writers[mutex[h]].pc \in {"locked", "written"}

\* C34 witness: on a CSV file sink one clone is inside a call on `file`
\* while the other is inside a record write on `csv_writer`
C34_Witness ==
    /\ mutex["file"] = "main" /\ mutex["csv_writer"] = "callback"
    /\ writers["main"].pc = "written"
    /\ writers["callback"].pc = "locked"

\* ------------------------------------------ claims about the CSV writer
\* C35: a File sink that create_file_mode returned has its CSV writer
\* exactly when its format is Csv; on such a CSV sink every record call has
\* a record to write, and a record call that has just returned Ok has put
\* its record into the file and left nothing in the writer's buffer.
C35_CsvWriterIffCsv ==
    IsFileSink =>
        /\ sink[1].csv_writer <=> sink[1].format = "Csv"
        /\ IsCsvFileSink =>
              /\ \A i \in 1..Len(ops) :
                    ops[i].kind = "record" => ops[i].cells # <<>>
              /\ ( /\ ops # <<>>
                   /\ ops[Len(ops)].kind = "record"
                   /\ ops[Len(ops)].result = "Ok" )
                 => /\ Contains(fs.content, ops[Len(ops)].cells)
                    /\ csv_buf = <<>>

\* C35 witness: the first call on a CSV file sink was a record call that
\* returned Ok, and the record is in the file
C35_Witness ==
    /\ IsCsvFileSink /\ sink[1].csv_writer
    /\ Len(ops) = 1
    /\ ops[1].kind = "record" /\ ops[1].result = "Ok"
    /\ Contains(fs.content, ops[1].cells)

\* ------------------------------------ claims about the paged fetch
\* the requests made for a symbol, in order
RequestsFor(symbol) == SelectSeq(requests, LAMBDA r : r.symbol = symbol)

\* C36: the requests for a symbol follow the page tokens: the first carries
\* none, each later one the token of the page before it; a fetch that
\* returned Ok returns one bar per fetched page, in page order and tagged
\* with the symbol, and made no request after the first response that ended
\* it (at most one request beyond the pages with bars); a fetch that met an
\* error returns no bars; while the server keeps sending pages with a next
\* token the fetch goes on without a result.
C36_PagedFetch ==
    /\ \A k \in 1..Len(results) :
          LET res == results[k]
              reqs == RequestsFor(res.symbol)
          IN  /\ res.symbol = hargs.symbols[k]
              /\ reqs # <<>>
              /\ \A i \in 1..Len(reqs) :
                    reqs[i].page_token = IF i = 1 THEN None ELSE Some(i - 1)
              /\ res.ok =>
                    /\ \A i \in 1..Len(res.bars) :
                          res.bars[i] = [symbol |-> res.symbol, page |-> i]
                    /\ Len(reqs) \in {Len(res.bars), Len(res.bars) + 1}
              /\ ~res.ok => res.bars = <<>>
    /\ hpc = "fetching" =>
          LET reqs == RequestsFor(hargs.symbols[hsym])
          IN  /\ Len(results) = hsym - 1
              /\ Len(reqs) = Len(all_bars)
              /\ page_token = IF all_bars = <<>> THEN None ELSE Some(Len(all_bars))
              /\ \A i \in 1..Len(all_bars) :
                    all_bars[i] = [symbol |-> hargs.symbols[hsym], page |-> i]

\* C36 witness: the fetch for the first symbol returned the bars of three
\* pages, the third of which had no next page token
C36_Witness ==
    /\ Len(results) >= 1
    /\ results[1].ok /\ Len(results[1].bars) = 3
    /\ Len(RequestsFor(results[1].symbol)) = 3

\* ------------------------------- claims about the validation of the CLI
\* one of the checks main makes on its arguments fails
SomeValidationFails(a) ==
    \/ ParseDate(a.start) = None
    \/ ParseDate(a.end) = None
    \/ a.start >= a.end
    \/ ValidateTimeframe(a.timeframe) = None
    \/ ValidateFeed(a.feed) = None
    \/ PageSizeRejected(a.page_size)

\* C37: when a check of the arguments fails (a date, the order of the dates,
\* the timeframe, the feed, the page size) the run never gets past its
\* validation: no output mode is created, no request is sent, the output
\* path stays as it was, and the process exits with status 1.
C37_ValidationBeforeSink ==
    /\ [](SomeValidationFails(hargs) =>
             /\ hpc \in {"start", "exited"}
             /\ create_result = "none" /\ sink = None
             /\ requests = <<>>
             /\ hpc = "exited" => hexit # None /\ hexit[1].code = 1)
    /\ [][SomeValidationFails(hargs) => fs' = fs]_vars

\* C37 witness: with the start date not before the end date and an
\* existing output file the process has exited, the file is as it was
C37_Witness ==
    /\ hpc = "exited"
    /\ hexit[1].error = "Start date must be before end date"
    /\ hargs.output /\ ~hargs.append
    /\ fs.exists /\ fs.content = OldContent
    /\ create_result = "none"

====
